---- MODULE Spec2Model ----
(***************************************************************************)
(* Request-processing pipeline of copilot-bridge: the HTTP dispatch layer  *)
(* (server.ts, routes.ts, validation.ts), the ProcessChatRequest use case, *)
(* the ChatMessage entity, the exception hierarchy and the VS Code         *)
(* language-model adapter.  Text is modelled by TLA+ strings, so that      *)
(* lengths, concatenation, comparison and parsing are computed, not        *)
(* assumed.                                                                 *)
(***************************************************************************)
EXTENDS Integers, Sequences, FiniteSets, TLC

VARIABLES config, req, cachedModel, cachedModelInfo, server, listeners, calls

vars == <<config, req, cachedModel, cachedModelInfo, server, listeners, calls>>

-----------------------------------------------------------------------------
(* Bounds of the model *)

\* A small configured body limit, so that bodies on both sides of the limit occur.
SmallMaxBodyBytes == 15

\* Where the network may cut a request body in two: after this many bytes.
FirstChunkBytes == 8

\* For the body reader taken alone: the most chunks a stream has, and the
\* largest limit it is read under.
MaxChunks == 3

MaxLimit == 6

\* For the lifecycle: the most calls of start() and stop() that are made.
MaxCalls == 4

-----------------------------------------------------------------------------
(* Program constants *)

DefaultPort == 32123

DefaultMaxBodyBytes == 1000000

DefaultBindAddress == "127.0.0.1"

DefaultFamily == "gpt-4o"

-----------------------------------------------------------------------------
(* Text helpers *)

\* An optional value: absent (JavaScript undefined) or present.
None == <<>>

Some(x) == <<x>>

Min(S) == CHOOSE x \in S : \A y \in S : x <= y

\* The character at position i (1-based), "" past either end.
Char(s, i) == IF i >= 1 /\ i <= Len(s) THEN SubSeq(s, i, i) ELSE ""

Digits == {"0", "1", "2", "3", "4", "5", "6", "7", "8", "9"}

Whitespace == {" ", "\t", "\n", "\r"}

\* String.prototype.startsWith
StartsWithAt(s, sub, i) == i + Len(sub) - 1 <= Len(s) /\ SubSeq(s, i, i + Len(sub) - 1) = sub

\* String.prototype.includes
Includes(s, sub) == \E i \in 1..(Len(s) + 1) : StartsWithAt(s, sub, i)

RECURSIVE Concat(_)
\* Buffer.concat(chunks).toString('utf8') on single-byte text
Concat(chunks) == IF chunks = <<>> THEN "" ELSE Head(chunks) \o Concat(Tail(chunks))

RECURSIVE TrimStart(_)
TrimStart(s) == IF Len(s) > 0 /\ Char(s, 1) \in Whitespace THEN TrimStart(SubSeq(s, 2, Len(s))) ELSE s

RECURSIVE TrimEnd(_)
TrimEnd(s) == IF Len(s) > 0 /\ Char(s, Len(s)) \in Whitespace THEN TrimEnd(SubSeq(s, 1, Len(s) - 1)) ELSE s

\* String.prototype.trim
Trim(s) == TrimEnd(TrimStart(s))

RECURSIVE NatToString(_)
\* Number rendered in a template literal (non-negative integers)
NatToString(n) ==
  LET d == CHOOSE c \in Digits : c = SubSeq("0123456789", (n % 10) + 1, (n % 10) + 1)
  IN IF n < 10 THEN d ELSE NatToString(n \div 10) \o d

RECURSIVE PadStart(_, _)
\* text.padStart(width, '0')
PadStart(text, width) == IF Len(text) >= width THEN text ELSE PadStart("0" \o text, width)

\* new Date(ms).toISOString() for an instant in the first minute of the epoch
toISOString(ms) ==
  "1970-01-01T00:00:" \o PadStart(NatToString(ms \div 1000), 2)
    \o "." \o PadStart(NatToString(ms % 1000), 3) \o "Z"

-----------------------------------------------------------------------------
(* validation.ts *)

\* remoteAddress.replace(/:\d+$/, ''): the leftmost ':' that is followed by
\* one or more digits up to the end of the string is cut off with its digits.
StripPortSuffix(addr) ==
  LET starts == {i \in 1..Len(addr) :
                   /\ Char(addr, i) = ":"
                   /\ i < Len(addr)
                   /\ \A j \in (i + 1)..Len(addr) : Char(addr, j) \in Digits}
  IN IF starts = {} THEN addr ELSE SubSeq(addr, 1, Min(starts) - 1)

\* isLocalhost with an absent address taken for a local one
isLocalhostAbsentIsLocal(remoteAddress) ==
  IF remoteAddress = None \/ remoteAddress = Some("")
  THEN TRUE
  ELSE LET addr == StripPortSuffix(remoteAddress[1])
       IN \/ addr = "127.0.0.1"
          \/ addr = "localhost"
          \/ addr = "::1"
          \/ addr = "::ffff:127.0.0.1"

\* isLocalhost(remoteAddress?)
isLocalhost(remoteAddress) ==
  IF remoteAddress = None \/ remoteAddress = Some("")
  THEN FALSE
  ELSE LET addr == StripPortSuffix(remoteAddress[1])
       IN \/ addr = "127.0.0.1"
          \/ addr = "localhost"
          \/ addr = "::1"
          \/ addr = "::ffff:127.0.0.1"

\* validateBearerToken comparing only the start of the header
validateBearerTokenPrefix(authHeader, cfg) ==
  IF cfg.token = ""
  THEN TRUE
  ELSE IF authHeader = None \/ authHeader = Some("")
       THEN FALSE
       ELSE StartsWithAt(authHeader[1], "Bearer " \o cfg.token, 1)

\* validateBearerToken(req, config), on the request's Authorization header
validateBearerToken(authHeader, cfg) ==
  IF cfg.token = ""
  THEN TRUE
  ELSE IF authHeader = None \/ authHeader = Some("")
       THEN FALSE
       ELSE authHeader[1] = "Bearer " \o cfg.token

\* The limit test of readBodyWithLimit off by one
ExceedsLimitOffByOne(totalBytes, maxBytes) == totalBytes >= maxBytes

\* if (totalBytes > maxBytes) in readBodyWithLimit
ExceedsLimit(totalBytes, maxBytes) == totalBytes > maxBytes

\* The message of the error readBodyWithLimit throws
SizeLimitMessage(maxBytes) ==
  "Request body exceeds maximum size of " \o NatToString(maxBytes) \o " bytes"

-----------------------------------------------------------------------------
(* domain/exceptions.ts: the exception classes and what is thrown *)

\* class X extends Y; TypeError and SyntaxError are the built-in subclasses
\* of Error; "Throwable" is the class given to a thrown value that is not an
\* Error (it has no superclass).
SuperClass(cls) ==
  CASE cls = "InvalidMessageError" -> "DomainError"
    [] cls = "ModelUnavailableError" -> "DomainError"
    [] cls = "ValidationError" -> "DomainError"
    [] cls = "DomainError" -> "Error"
    [] cls = "TypeError" -> "Error"
    [] cls = "SyntaxError" -> "Error"
    [] OTHER -> "none"

RECURSIVE InstanceOf(_, _)
\* err instanceof target
InstanceOf(cls, target) ==
  IF cls = target THEN TRUE
  ELSE IF SuperClass(cls) = "none" THEN FALSE
  ELSE InstanceOf(SuperClass(cls), target)

\* A thrown value: its class and its message (String(err) for a non-Error).
Thrown(cls, message) == [class |-> cls, message |-> message]

NoError == [class |-> "none", message |-> ""]

-----------------------------------------------------------------------------
(* JavaScript values as produced by JSON.parse *)

JUndefined == [t |-> "undefined"]

JNull == [t |-> "null"]

JBool(b) == [t |-> "bool", v |-> b]

JNum(n) == [t |-> "num", v |-> n]

JStr(s) == [t |-> "str", v |-> s]

JArr(items) == [t |-> "arr", v |-> items]

\* An object: a function from its keys to their values
JObj(members) == [t |-> "obj", v |-> members]

\* value.name, for a value that is neither null nor undefined
GetProp(value, name) ==
  CASE value.t = "obj" -> IF name \in DOMAIN value.v THEN value.v[name] ELSE JUndefined
    [] value.t = "arr" -> IF name = "length" THEN JNum(Len(value.v)) ELSE JUndefined
    [] value.t = "str" -> IF name = "length" THEN JNum(Len(value.v)) ELSE JUndefined
    [] OTHER -> JUndefined

\* Reading a property of null or undefined throws a TypeError
IsNullish(value) == value.t \in {"null", "undefined"}

\* !value
IsFalsy(value) ==
  CASE value.t \in {"null", "undefined"} -> TRUE
    [] value.t = "bool" -> ~value.v
    [] value.t = "num" -> value.v = 0
    [] value.t = "str" -> value.v = ""
    [] OTHER -> FALSE

RECURSIVE JsToString(_)
RECURSIVE JoinItems(_)
\* Array.prototype.join(','), as used by String(array)
JoinItems(items) ==
  IF items = <<>> THEN ""
  ELSE LET h == IF IsNullish(Head(items)) THEN "" ELSE JsToString(Head(items))
       IN IF Len(items) = 1 THEN h ELSE h \o "," \o JoinItems(Tail(items))

\* `${value}` in a template literal
JsToString(value) ==
  CASE value.t = "undefined" -> "undefined"
    [] value.t = "null" -> "null"
    [] value.t = "bool" -> IF value.v THEN "true" ELSE "false"
    [] value.t = "num" -> NatToString(value.v)
    [] value.t = "str" -> value.v
    [] value.t = "arr" -> JoinItems(value.v)
    [] OTHER -> "[object Object]"

-----------------------------------------------------------------------------
(* JSON.parse, on the JSON subset the request bodies are written in:        *)
(* objects, arrays, strings without escape sequences, non-negative         *)
(* integers, true, false, null, and whitespace between tokens.             *)

ParseFail == [ok |-> FALSE, val |-> JUndefined, next |-> 0]

ParseOk(value, next) == [ok |-> TRUE, val |-> value, next |-> next]

RECURSIVE SkipWs(_, _)
SkipWs(s, i) == IF Char(s, i) \in Whitespace THEN SkipWs(s, i + 1) ELSE i

RECURSIVE DigitsValue(_)
DigitsValue(d) ==
  IF d = "" THEN 0
  ELSE 10 * DigitsValue(SubSeq(d, 1, Len(d) - 1))
       + (CHOOSE n \in 0..9 : SubSeq("0123456789", n + 1, n + 1) = Char(d, Len(d)))

\* A string literal opening at position i
ParseStringLit(s, i) ==
  LET closes == {k \in (i + 1)..Len(s) : Char(s, k) = "\""}
  IN IF Char(s, i) # "\"" \/ closes = {} THEN ParseFail
     ELSE LET k == Min(closes)
              text == SubSeq(s, i + 1, k - 1)
          IN IF \E j \in 1..Len(text) : Char(text, j) \in {"\\", "\t", "\n", "\r"}
             THEN ParseFail
             ELSE ParseOk(JStr(text), k + 1)

\* A number opening at position i: 0, or a digit 1-9 followed by digits
ParseNumber(s, i) ==
  IF Char(s, i) = "0" THEN ParseOk(JNum(0), i + 1)
  ELSE LET stops == {k \in i..Len(s) : Char(s, k + 1) \notin Digits}
           k == Min(stops)
       IN ParseOk(JNum(DigitsValue(SubSeq(s, i, k))), k + 1)

RECURSIVE ParseValue(_, _)
RECURSIVE ParseElements(_, _, _)
RECURSIVE ParseMembers(_, _, _)

\* The elements of an array after '[' or ',', up to the closing ']'
ParseElements(s, i, acc) ==
  LET e == ParseValue(s, i)
      j == SkipWs(s, e.next)
  IN IF ~e.ok THEN ParseFail
     ELSE IF Char(s, j) = "," THEN ParseElements(s, j + 1, Append(acc, e.val))
     ELSE IF Char(s, j) = "]" THEN ParseOk(JArr(Append(acc, e.val)), j + 1)
     ELSE ParseFail

\* The members of an object after '{' or ',', up to the closing '}';
\* a repeated key keeps its last value
ParseMembers(s, i, acc) ==
  LET k == ParseStringLit(s, SkipWs(s, i))
      c == SkipWs(s, k.next)
      m == ParseValue(s, c + 1)
      j == SkipWs(s, m.next)
      put == [n \in (DOMAIN acc) \cup {k.val.v} |-> IF n = k.val.v THEN m.val ELSE acc[n]]
  IN IF ~k.ok \/ Char(s, c) # ":" THEN ParseFail
     ELSE IF ~m.ok THEN ParseFail
     ELSE IF Char(s, j) = "," THEN ParseMembers(s, j + 1, put)
     ELSE IF Char(s, j) = "}" THEN ParseOk(JObj(put), j + 1)
     ELSE ParseFail

ParseValue(s, i) ==
  LET j == SkipWs(s, i)
      c == Char(s, j)
  IN CASE c = "{" ->
            IF Char(s, SkipWs(s, j + 1)) = "}"
            THEN ParseOk(JObj(<<>>), SkipWs(s, j + 1) + 1)
            ELSE ParseMembers(s, j + 1, <<>>)
       [] c = "[" ->
            IF Char(s, SkipWs(s, j + 1)) = "]"
            THEN ParseOk(JArr(<<>>), SkipWs(s, j + 1) + 1)
            ELSE ParseElements(s, j + 1, <<>>)
       [] c = "\"" -> ParseStringLit(s, j)
       [] c \in Digits -> ParseNumber(s, j)
       [] StartsWithAt(s, "null", j) -> ParseOk(JNull, j + 4)
       [] StartsWithAt(s, "true", j) -> ParseOk(JBool(TRUE), j + 4)
       [] StartsWithAt(s, "false", j) -> ParseOk(JBool(FALSE), j + 5)
       [] OTHER -> ParseFail

\* A parse that takes an empty text for an empty object
JsonParseEmptyIsObject(text) ==
  LET r == ParseValue(text, 1)
  IN IF text = "" THEN ParseOk(JObj(<<>>), 1)
     ELSE IF r.ok /\ SkipWs(text, r.next) = Len(text) + 1 THEN r ELSE ParseFail

\* JSON.parse(text): one value, then nothing but whitespace; otherwise it throws
JsonParse(text) ==
  LET r == ParseValue(text, 1)
  IN IF r.ok /\ SkipWs(text, r.next) = Len(text) + 1 THEN r ELSE ParseFail

-----------------------------------------------------------------------------
(* domain/entities/ChatMessage.ts *)

validRoles == {"system", "user", "assistant"}

\* ChatMessage.validateRole: the error it throws, NoError when the role is valid
validateRole(role) ==
  IF role.t = "str" /\ role.v \in validRoles
  THEN NoError
  ELSE Thrown("InvalidMessageError",
              "Invalid message role: " \o JsToString(role)
                \o ". Must be 'system', 'user', or 'assistant'")

\* ChatMessage.validateContent
validateContent(content) ==
  IF content.t # "str"
  THEN Thrown("InvalidMessageError", "Message content must be a string")
  ELSE IF Len(Trim(content.v)) = 0
       THEN Thrown("InvalidMessageError", "Message content cannot be empty")
       ELSE NoError

\* The constructor with the content validated before the role
NewChatMessageContentFirst(role, content) ==
  IF validateContent(content) # NoError
  THEN [err |-> validateContent(content), msg |-> <<>>]
  ELSE IF validateRole(role) # NoError
       THEN [err |-> validateRole(role), msg |-> <<>>]
       ELSE [err |-> NoError, msg |-> <<[role |-> role.v, content |-> content.v]>>]

\* new ChatMessage(role, content): the role is validated before the content
NewChatMessage(role, content) ==
  IF validateRole(role) # NoError
  THEN [err |-> validateRole(role), msg |-> <<>>]
  ELSE IF validateContent(content) # NoError
       THEN [err |-> validateContent(content), msg |-> <<>>]
       ELSE [err |-> NoError, msg |-> <<[role |-> role.v, content |-> content.v]>>]

-----------------------------------------------------------------------------
(* application/use-cases/ProcessChatRequest.ts *)

\* Line 22: the log line evaluates request.messages.length before validation
ReadMessagesLength(request) ==
  IF IsNullish(request)
  THEN Thrown("TypeError",
              "Cannot read properties of " \o JsToString(request) \o " (reading 'messages')")
  ELSE IF IsNullish(GetProp(request, "messages"))
       THEN Thrown("TypeError",
                   "Cannot read properties of " \o JsToString(GetProp(request, "messages"))
                     \o " (reading 'length')")
       ELSE NoError

\* validateRequest without its test for an empty array
validateRequestAllowsEmpty(request) ==
  LET messages == GetProp(request, "messages")
  IN IF IsFalsy(messages) \/ messages.t # "arr"
     THEN Thrown("ValidationError", "messages array is required")
     ELSE NoError

\* ProcessChatRequest.validateRequest
validateRequest(request) ==
  LET messages == GetProp(request, "messages")
  IN IF IsFalsy(messages) \/ messages.t # "arr"
     THEN Thrown("ValidationError", "messages array is required")
     ELSE IF Len(messages.v) = 0
          THEN Thrown("ValidationError", "messages array must not be empty")
          ELSE NoError

RECURSIVE MapMessages(_)
\* request.messages.map(msg => new ChatMessage(msg.role, msg.content)):
\* the first message that fails ends the conversion with its error
MapMessages(items) ==
  IF items = <<>> THEN [err |-> NoError, msgs |-> <<>>]
  ELSE LET msg == Head(items)
           made == NewChatMessage(GetProp(msg, "role"), GetProp(msg, "content"))
           rest == MapMessages(Tail(items))
       IN IF IsNullish(msg)
          THEN [err |-> Thrown("TypeError",
                               "Cannot read properties of " \o JsToString(msg)
                                 \o " (reading 'role')"),
                msgs |-> <<>>]
          ELSE IF made.err # NoError THEN [err |-> made.err, msgs |-> <<>>]
          ELSE IF rest.err # NoError THEN rest
          ELSE [err |-> NoError, msgs |-> made.msg \o rest.msgs]

\* convertToDomainMessages converting the first message only
convertToDomainMessagesFirstOnly(request) ==
  MapMessages(SubSeq(GetProp(request, "messages").v, 1, 1))

\* ProcessChatRequest.convertToDomainMessages
convertToDomainMessages(request) == MapMessages(GetProp(request, "messages").v)

\* The family hint with the default family filled in by the use case
RequestedFamilyOrDefault(request) ==
  IF IsNullish(GetProp(request, "model"))
       \/ GetProp(GetProp(request, "model"), "family") = JUndefined
  THEN JStr(DefaultFamily)
  ELSE GetProp(GetProp(request, "model"), "family")

\* request.model?.family
RequestedFamily(request) ==
  IF IsNullish(GetProp(request, "model"))
  THEN JUndefined
  ELSE GetProp(GetProp(request, "model"), "family")

\* execute(), from its first line to the call of the model port: the error
\* thrown on the way (NoError if none) and the domain messages
ExecutePrologue(request) ==
  IF ReadMessagesLength(request) # NoError
  THEN [err |-> ReadMessagesLength(request), msgs |-> <<>>]
  ELSE IF validateRequest(request) # NoError
       THEN [err |-> validateRequest(request), msgs |-> <<>>]
       ELSE convertToDomainMessages(request)

-----------------------------------------------------------------------------
(* The VS Code language-model adapter (VSCodeLanguageModelAdapter) *)

RECURSIVE FindSystem(_)
\* messages.find((m) => m.isSystem())
FindSystem(messages) ==
  IF messages = <<>> THEN None
  ELSE IF Head(messages).role = "system" THEN Some(Head(messages))
  ELSE FindSystem(Tail(messages))

RECURSIVE PrepareLoop(_, _, _)
\* The loop of prepareMessages over the remaining messages
PrepareLoop(messages, systemMessage, userMessagesStarted) ==
  IF messages = <<>> THEN <<>>
  ELSE LET msg == Head(messages)
           prepend == msg.role = "user" /\ ~userMessagesStarted /\ systemMessage # None
           content ==
             IF prepend
             THEN "[System Instructions]\n" \o systemMessage[1].content
                    \o "\n\n[User Message]\n" \o msg.content
             ELSE msg.content
       IN IF msg.role = "system"
          THEN PrepareLoop(Tail(messages), systemMessage, userMessagesStarted)
          ELSE <<[role |-> msg.role, content |-> content]>>
                 \o PrepareLoop(Tail(messages), systemMessage, userMessagesStarted \/ prepend)

\* VSCodeLanguageModelAdapter.prepareMessages
prepareMessages(messages) == PrepareLoop(messages, FindSystem(messages), FALSE)

\* VSCodeLanguageModelAdapter.convertToModelInfo
convertToModelInfo(model) ==
  [id |-> model.id, vendor |-> model.vendor, family |-> model.family,
   name |-> model.name, maxInputTokens |-> model.maxInputTokens,
   version |-> model.version, additionalProperties |-> model.extra]

\* const family = modelFamily || this.defaultFamily
EffectiveFamily(modelFamily, defaultFamily) ==
  IF IsFalsy(modelFamily) THEN JStr(defaultFamily) ELSE modelFamily

\* family && family !== 'auto': the requested family is tried first
TriesFamily(family) == ~IsFalsy(family) /\ family # JStr("auto")

-----------------------------------------------------------------------------
(* adapters/input/http-server/routes.ts *)

NoResponse == [status |-> 0, contentType |-> None, body |-> [kind |-> "none"]]

\* res.setHeader(name, value): the header of that name is set or replaced
setHeader(headers, name, value) ==
  {h \in headers : h[1] # name} \cup {<<name, value>>}

\* setCorsHeaders without its Access-Control-Allow-Headers line
setCorsHeadersNoAllowHeaders(headers) ==
  setHeader(setHeader(headers, "Access-Control-Allow-Origin", "*"),
            "Access-Control-Allow-Methods", "GET, POST, OPTIONS")

\* setCorsHeaders(res)
setCorsHeaders(headers) ==
  setHeader(setHeader(setHeader(headers, "Access-Control-Allow-Origin", "*"),
                      "Access-Control-Allow-Methods", "GET, POST, OPTIONS"),
            "Access-Control-Allow-Headers", "Content-Type, Authorization")

\* sendError(res, status, error, details?): details is left out when falsy
sendError(status, error, details) ==
  [status |-> status, contentType |-> Some("application/json"),
   body |-> [kind |-> "error", error |-> error,
             details |-> IF details = "" THEN None ELSE Some(details)]]

\* The catch block with the size test applied to anything thrown
ChatCatchResponseAnyThrowable(err) ==
  IF InstanceOf(err.class, "ValidationError")
  THEN sendError(400, "Bad Request", err.message)
  ELSE IF Includes(err.message, "exceeds maximum size")
       THEN sendError(400, "Bad Request", err.message)
       ELSE sendError(500, "Internal Server Error", err.message)

\* The catch block of handleChatRequest
ChatCatchResponse(err) ==
  IF InstanceOf(err.class, "ValidationError")
  THEN sendError(400, "Bad Request", err.message)
  ELSE IF InstanceOf(err.class, "Error") /\ Includes(err.message, "exceeds maximum size")
       THEN sendError(400, "Bad Request", err.message)
       ELSE sendError(500, "Internal Server Error", err.message)

\* getTime() read as if it counted whole seconds
DateGetTimeInSeconds(iso) == DigitsValue(SubSeq(iso, 18, 19))

\* new Date(iso).getTime() for a string written by toISOString: the seconds
\* and the milliseconds of the instant, in milliseconds
DateGetTime(iso) ==
  1000 * DigitsValue(SubSeq(iso, 18, 19)) + DigitsValue(SubSeq(iso, 21, 23))

\* The success branch with the OpenAI shape on every path
ChatSuccessResponseOpenAIOnly(url, envelope) ==
  [status |-> 200, contentType |-> Some("application/json"),
   body |-> [kind |-> "openai",
             id |-> envelope.id,
             object |-> "chat.completion",
             created |-> DateGetTime(envelope.meta.startedAt) \div 1000,
             model |-> envelope.model.family,
             choices |-> <<[index |-> 0,
                            message |-> [role |-> "assistant",
                                         content |-> envelope.output_text],
                            finish_reason |-> "stop"]>>,
             usage |-> [prompt_tokens |-> 0, completion_tokens |-> 0,
                        total_tokens |-> 0]]]

\* The success branch of handleChatRequest: the OpenAI shape on the
\* compatibility path, the envelope itself otherwise
ChatSuccessResponse(url, envelope) ==
  [status |-> 200, contentType |-> Some("application/json"),
   body |-> IF url = "/v1/chat/completions"
            THEN [kind |-> "openai",
                  id |-> envelope.id,
                  object |-> "chat.completion",
                  created |-> DateGetTime(envelope.meta.startedAt) \div 1000,
                  model |-> envelope.model.family,
                  choices |-> <<[index |-> 0,
                                 message |-> [role |-> "assistant",
                                              content |-> envelope.output_text],
                                 finish_reason |-> "stop"]>>,
                  usage |-> [prompt_tokens |-> 0, completion_tokens |-> 0,
                             total_tokens |-> 0]]
            ELSE [kind |-> "envelope",
                  id |-> envelope.id,
                  model |-> envelope.model,
                  output_text |-> envelope.output_text,
                  meta |-> envelope.meta]]

-----------------------------------------------------------------------------
(* application/use-cases/ListModels.ts *)

\* The detail record of one model: the fixed fields, then the additional
\* properties spread over them
ModelDetail(info) ==
  LET fixed == [id |-> info.id, vendor |-> info.vendor, family |-> info.family,
                name |-> info.name, maxInputTokens |-> info.maxInputTokens,
                version |-> info.version]
      extra == info.additionalProperties
  IN [k \in (DOMAIN fixed) \cup (DOMAIN extra) |->
        IF k \in DOMAIN extra THEN extra[k] ELSE fixed[k]]

\* ListModels.execute with the list mapped from its last model to its first
ListModelsResponseReversed(infos) ==
  LET modelDTOs == [i \in 1..Len(infos) |-> ModelDetail(infos[Len(infos) + 1 - i])]
  IN [models |-> modelDTOs, count |-> Len(modelDTOs)]

\* ListModels.execute on the list the port returned
ListModelsResponse(infos) ==
  LET modelDTOs == [i \in 1..Len(infos) |-> ModelDetail(infos[i])]
  IN [models |-> modelDTOs, count |-> Len(modelDTOs)]

-----------------------------------------------------------------------------
(* The environment: what clients send, what the configuration holds and    *)
(* what the model provider answers                                          *)

\* The request slots: the requests that may be in flight at the same time
Reqs == {1}

Methods == {"OPTIONS", "POST", "GET"}

Urls == {"/v1/chat", "/v1/chat/completions", "/v1/models", "/v1/unknown"}

RemoteAddresses ==
  {None, Some("127.0.0.1"), Some("127.0.0.1:54321"), Some("::1"), Some("10.0.0.1"),
   Some("192.168.1.1:54321")}

Tokens == {"", "abc"}

AuthHeaders ==
  {None, Some("Bearer abc"), Some("Bearer abd"), Some("bearer abc"),
   Some("Basic abc"), Some("Bearer abc "), Some("Bearer  abc")}

BodyLimits == {SmallMaxBodyBytes, DefaultMaxBodyBytes}

Bodies ==
  {"",
   "invalid json",
   "{\"messages\":[{\"role\":\"user\"}",
   "null",
   "{}",
   "{\"messages\":[]}",
   "{\"messages\": []}",
   "{\"messages\":\"not an array\"}",
   "{\"messages\":[{\"role\":\"user\",\"content\":\"Hello\"}]}",
   "{\"messages\":[{\"role\":\"invalid\",\"content\":\"test\"}]}",
   "{\"messages\":[{\"role\":\"user\",\"content\":\"   \"}]}",
   "{\"messages\":[{\"role\":\"user\",\"content\":5}]}",
   "{\"messages\":[{\"role\":\"user\",\"content\":\"Hi\"},{\"role\":\"bot\"}]}",
   "{\"messages\":[{\"role\":\"system\",\"content\":\"Be brief\"}]}",
   "{\"messages\":[{\"role\":\"system\",\"content\":\"Be brief\"},{\"role\":\"user\",\"content\":\"Hi\"}],\"model\":{\"family\":\"claude-3.5-sonnet\"}}"}

\* The chunks in which a body reaches the reader: nothing for an empty
\* body, the whole body at once, or the body cut after FirstChunkBytes
StreamsOf(body) ==
  IF body = "" THEN {<<>>}
  ELSE {<<body>>}
       \cup {<<SubSeq(body, 1, k), SubSeq(body, k + 1, Len(body))>> :
               k \in {FirstChunkBytes} \cap (1..(Len(body) - 1))}

\* crypto.randomUUID()
UUIDs == {"3f0c2a6e-5b1d-4c8e-9a7f-0d2b4e6a8c10", "9b7e1d42-0c3a-4f5b-8e6d-1a2b3c4d5e6f"}

\* Date.now() in milliseconds; the clock does not run backwards
Times == {999, 1000}

Gpt4o ==
  [id |-> "copilot-gpt-4o", vendor |-> "copilot", family |-> "gpt-4o",
   name |-> "GPT-4o", maxInputTokens |-> 128000, version |-> Some("2024-05-13"),
   extra |-> [capabilities |-> "vision"]]

Claude ==
  [id |-> "copilot-claude-3.5-sonnet", vendor |-> "copilot",
   family |-> "claude-3.5-sonnet", name |-> "Claude 3.5 Sonnet",
   maxInputTokens |-> 90000, version |-> None,
   extra |-> [capabilities |-> "text"]]

\* What vscode.lm.selectChatModels({vendor: 'copilot'}) may answer
VendorOffers == {<<>>, <<Gpt4o>>, <<Claude>>, <<Gpt4o, Claude>>, <<Claude, Gpt4o>>}

\* What vscode.lm.selectChatModels({vendor: 'copilot', family}) may answer
FamilyOffers(family) ==
  {offer \in VendorOffers :
     \A i \in 1..Len(offer) : family.t = "str" /\ offer[i].family = family.v}

\* The text a model call may return
Replies == {"Hi there!", "4"}

\* What a model call may throw
ProviderThrows ==
  {Thrown("Error", "Model request failed"),
   Thrown("Error", "Prompt exceeds maximum size"),
   Thrown("Throwable", "boom"),
   Thrown("Throwable", "Quota exceeds maximum size")}

\* JSON.parse and the prologue of execute are functions of their argument:
\* their values on the bodies that clients send are computed once
ParsedBodies == [text \in Bodies |-> JsonParse(text)]

Prologues ==
  [request \in {ParsedBodies[text].val : text \in Bodies} |-> ExecutePrologue(request)]

-----------------------------------------------------------------------------
(* State *)

\* A request slot with no request in it
IdleReq ==
  [pc |-> "idle", method |-> "", url |-> "", remoteAddress |-> None,
   authorization |-> None, cfg |-> None, headers |-> {},
   sent |-> <<>>, stream |-> <<>>, chunks |-> <<>>, totalBytes |-> 0,
   body |-> None, chatRequest |-> JUndefined, requestId |-> "", startedAt |-> 0,
   messages |-> <<>>, family |-> JUndefined, model |-> None, outputText |-> None,
   selected |-> None, prepared |-> None, listed |-> None,
   aborted |-> FALSE, cancellationRequested |-> FALSE,
   thrown |-> NoError, response |-> NoResponse, writes |-> 0,
   steps |-> <<>>, executeCalls |-> 0, sendCalls |-> 0, providerCalls |-> 0,
   log |-> <<>>]

\* A listener made by http.createServer and asked to listen on host:port
Listener(state, host, port) == [state |-> state, host |-> host, port |-> port]

\* A call of start() or stop(): the listener it works on (0 if none), whether
\* it has read the configuration, what it has logged, and how it has ended
Call(op, state, error, listener, readConfig, log) ==
  [op |-> op, state |-> state, error |-> error, listener |-> listener,
   readConfig |-> readConfig, unbound |-> FALSE, log |-> log]

\* start() has resolved: the one listener is bound and this.server holds it
Serving ==
  /\ server = Some(1)
  /\ listeners = <<Listener("listening", DefaultBindAddress, DefaultPort)>>
  /\ calls = <<Call("start", "resolved", "", 1, TRUE,
                    <<"[Server] Starting on 127.0.0.1:32123",
                      "[Server] Listening on http://127.0.0.1:32123">>)>>

Init ==
  /\ config = [port |-> DefaultPort, bindAddress |-> DefaultBindAddress, token |-> "",
               defaultFamily |-> DefaultFamily, maxBodyBytes |-> DefaultMaxBodyBytes]
  /\ req = [r \in Reqs |-> IdleReq]
  /\ cachedModel = None
  /\ cachedModelInfo = None
  /\ Serving

\* The user edits the settings: the configuration source changes at any time
ConfigChange ==
  /\ \E token \in Tokens, maxBodyBytes \in BodyLimits :
       config' = [config EXCEPT !.token = token, !.maxBodyBytes = maxBodyBytes]
  /\ config' # config
  /\ UNCHANGED <<req, cachedModel, cachedModelInfo, server, listeners, calls>>

-----------------------------------------------------------------------------
(* adapters/input/http-server/server.ts: handleRequest, step by step *)

\* handleRequest without its localhost check
NextGateNoLocalhost(step) ==
  CASE step = "config" -> "cors"
    [] step = "cors" -> "preflight"
    [] step = "preflight" -> "auth"
    [] step = "auth" -> "route"
    [] OTHER -> "handler"

\* handleRequest with the token checked before the peer address
NextGateTokenFirst(step) ==
  CASE step = "config" -> "cors"
    [] step = "cors" -> "preflight"
    [] step = "preflight" -> "auth"
    [] step = "auth" -> "localhost"
    [] step = "localhost" -> "route"
    [] OTHER -> "handler"

\* The order of the steps of handleRequest: the step that follows a step
\* the request has passed
NextGate(step) ==
  CASE step = "config" -> "cors"
    [] step = "cors" -> "preflight"
    [] step = "preflight" -> "localhost"
    [] step = "localhost" -> "auth"
    [] step = "auth" -> "route"
    [] OTHER -> "handler"

\* res.writeHead(...); res.end(...): the response is written and the request ends
Respond(slot, response) ==
  [slot EXCEPT !.pc = "done", !.response = response, !.writes = @ + 1]

\* A request reaches the listener and handleRequest reads the configuration
Arrive(r) ==
  /\ req[r].pc = "idle"
  /\ \E i \in DOMAIN listeners : listeners[i].state = "listening"
  /\ \E method \in Methods, url \in Urls, remoteAddress \in RemoteAddresses,
        authorization \in AuthHeaders :
       req' = [req EXCEPT ![r] =
                 [IdleReq EXCEPT !.pc = NextGate("config"), !.method = method, !.url = url,
                                 !.remoteAddress = remoteAddress,
                                 !.authorization = authorization,
                                 !.cfg = Some(config), !.steps = <<"config">>]]
  /\ UNCHANGED <<config, cachedModel, cachedModelInfo, server, listeners, calls>>

\* The connection of an answered request is closed and its slot is free again
Close(r) ==
  /\ req[r].pc = "done"
  /\ req' = [req EXCEPT ![r] = IdleReq]
  /\ UNCHANGED <<config, cachedModel, cachedModelInfo, server, listeners, calls>>

\* setCorsHeaders(res), called by handleRequest
SetCors(r) ==
  /\ req[r].pc = "cors"
  /\ req' = [req EXCEPT ![r] =
               [@ EXCEPT !.pc = NextGate("cors"), !.headers = setCorsHeaders(@),
                         !.steps = Append(@, "cors")]]
  /\ UNCHANGED <<config, cachedModel, cachedModelInfo, server, listeners, calls>>

\* The preflight answered only for the paths that have a handler
PreflightKnownPathsOnly(r) ==
  /\ req[r].pc = "preflight"
  /\ LET slot == [req[r] EXCEPT !.steps = Append(@, "preflight")]
     IN req' = [req EXCEPT ![r] =
                  IF slot.method = "OPTIONS" /\ slot.url # "/v1/unknown"
                  THEN Respond(slot, [status |-> 204, contentType |-> None,
                                      body |-> [kind |-> "empty"]])
                  ELSE [slot EXCEPT !.pc = NextGate("preflight")]]
  /\ UNCHANGED <<config, cachedModel, cachedModelInfo, server, listeners, calls>>

\* if (req.method === 'OPTIONS') { 204 }
Preflight(r) ==
  /\ req[r].pc = "preflight"
  /\ LET slot == [req[r] EXCEPT !.steps = Append(@, "preflight")]
     IN req' = [req EXCEPT ![r] =
                  IF slot.method = "OPTIONS"
                  THEN Respond(slot, [status |-> 204, contentType |-> None,
                                      body |-> [kind |-> "empty"]])
                  ELSE [slot EXCEPT !.pc = NextGate("preflight")]]
  /\ UNCHANGED <<config, cachedModel, cachedModelInfo, server, listeners, calls>>

\* if (!isLocalhost(req.socket.remoteAddress)) { 403 }
CheckLocalhost(r) ==
  /\ req[r].pc = "localhost"
  /\ LET slot == [req[r] EXCEPT !.steps = Append(@, "localhost")]
     IN req' = [req EXCEPT ![r] =
                  IF ~isLocalhost(slot.remoteAddress)
                  THEN Respond([slot EXCEPT !.log = Append(@,
                                  [level |-> "warning",
                                   message |-> "[Security] Rejected non-localhost request"])],
                               sendError(403, "Forbidden",
                                         "Only localhost requests are allowed"))
                  ELSE [slot EXCEPT !.pc = NextGate("localhost")]]
  /\ UNCHANGED <<config, cachedModel, cachedModelInfo, server, listeners, calls>>

\* if (!validateBearerToken(req, config)) { 401 }
CheckToken(r) ==
  /\ req[r].pc = "auth"
  /\ LET slot == [req[r] EXCEPT !.steps = Append(@, "auth")]
     IN req' = [req EXCEPT ![r] =
                  IF ~validateBearerToken(slot.authorization, slot.cfg[1])
                  THEN Respond([slot EXCEPT !.log = Append(@,
                                  [level |-> "warning",
                                   message |-> "[Security] Invalid or missing bearer token"])],
                               sendError(401, "Unauthorized",
                                         "Invalid or missing bearer token"))
                  ELSE [slot EXCEPT !.pc = NextGate("auth")]]
  /\ UNCHANGED <<config, cachedModel, cachedModelInfo, server, listeners, calls>>

\* The route match with the chat paths accepted for every method
RouteOfAnyMethod(method, url) ==
  IF url = "/v1/chat" \/ url = "/v1/chat/completions" THEN "chat"
  ELSE IF url = "/v1/models" /\ method = "GET" THEN "models"
  ELSE "notFound"

\* Which handler the route match of handleRequest picks
RouteOf(method, url) ==
  IF (url = "/v1/chat" \/ url = "/v1/chat/completions") /\ method = "POST" THEN "chat"
  ELSE IF url = "/v1/models" /\ method = "GET" THEN "models"
  ELSE "notFound"

\* The route match: the chat handler starts reading the body that the
\* client sends, the models handler calls ListModels, anything else is a 404
RouteMatch(r) ==
  /\ req[r].pc = "route"
  /\ LET slot == [req[r] EXCEPT !.steps = Append(@, "route")]
         route == RouteOf(slot.method, slot.url)
     IN CASE route = "chat" ->
               \E body \in Bodies : \E stream \in StreamsOf(body) :
                 req' = [req EXCEPT ![r] = [slot EXCEPT !.pc = "readBody", !.sent = stream,
                                                   !.stream = stream]]
          [] route = "models" ->
               req' = [req EXCEPT ![r] =
                         [slot EXCEPT !.pc = "listModels", !.providerCalls = @ + 1,
                                      !.steps = Append(@, "listModels")]]
          [] OTHER ->
               req' = [req EXCEPT ![r] =
                         Respond(slot, sendError(404, "Not Found",
                                   "Unknown endpoint: " \o slot.method \o " " \o slot.url))]
  /\ UNCHANGED <<config, cachedModel, cachedModelInfo, server, listeners, calls>>

-----------------------------------------------------------------------------
(* adapters/input/http-server/routes.ts and validation.ts: the chat handler *)

\* A catch block that logs the failure and answers nothing
ChatFailLogsOnly(slot, err) ==
  [slot EXCEPT !.pc = "failed", !.thrown = err,
               !.log = Append(@, [level |-> "error",
                                  message |-> "[Error] Chat request failed"])]

\* The catch block of handleChatRequest: the failure is logged and answered
ChatFail(slot, err) ==
  Respond([slot EXCEPT !.thrown = err,
                       !.log = Append(@, [level |-> "error",
                                          message |-> "[Error] Chat request failed"])],
          ChatCatchResponse(err))

\* The step of the chat handler a slot is in
Stage(slot, name) ==
  IF slot.steps[Len(slot.steps)] = name THEN slot.steps ELSE Append(slot.steps, name)

\* A turn of the loop that stores the chunk before it tests the total
ReadChunkStoresFirst(r) ==
  /\ req[r].pc = "readBody"
  /\ req[r].stream # <<>>
  /\ LET chunk == Head(req[r].stream)
         totalBytes == req[r].totalBytes + Len(chunk)
         maxBytes == req[r].cfg[1].maxBodyBytes
         slot == [req[r] EXCEPT !.steps = Stage(req[r], "readBody"),
                                !.stream = Tail(@), !.totalBytes = totalBytes,
                                !.chunks = Append(@, chunk)]
     IN req' = [req EXCEPT ![r] =
                  IF ExceedsLimit(totalBytes, maxBytes)
                  THEN ChatFail(slot, Thrown("Error", SizeLimitMessage(maxBytes)))
                  ELSE slot]
  /\ UNCHANGED <<config, cachedModel, cachedModelInfo, server, listeners, calls>>

\* readBodyWithLimit: one turn of the loop over the chunks of the stream
ReadChunk(r) ==
  /\ req[r].pc = "readBody"
  /\ req[r].stream # <<>>
  /\ LET chunk == Head(req[r].stream)
         totalBytes == req[r].totalBytes + Len(chunk)
         maxBytes == req[r].cfg[1].maxBodyBytes
         slot == [req[r] EXCEPT !.steps = Stage(req[r], "readBody"),
                                !.stream = Tail(@), !.totalBytes = totalBytes]
     IN req' = [req EXCEPT ![r] =
                  IF ExceedsLimit(totalBytes, maxBytes)
                  THEN ChatFail(slot, Thrown("Error", SizeLimitMessage(maxBytes)))
                  ELSE [slot EXCEPT !.chunks = Append(@, chunk)]]
  /\ UNCHANGED <<config, cachedModel, cachedModelInfo, server, listeners, calls>>

\* The stream ends: readBodyWithLimit returns the text and the handler
\* parses it
EndOfBody(r) ==
  /\ req[r].pc = "readBody"
  /\ req[r].stream = <<>>
  /\ LET body == Concat(req[r].chunks)
         parsed == IF body \in DOMAIN ParsedBodies THEN ParsedBodies[body]
                   ELSE JsonParse(body)
         slot == [req[r] EXCEPT !.steps = Append(Stage(req[r], "readBody"), "parse"),
                                !.body = Some(body)]
     IN req' = [req EXCEPT ![r] =
                  IF ~parsed.ok
                  THEN Respond(slot, sendError(400, "Bad Request", "Invalid JSON payload"))
                  ELSE [slot EXCEPT !.pc = "execute", !.chatRequest = parsed.val]]
  /\ UNCHANGED <<config, cachedModel, cachedModelInfo, server, listeners, calls>>

\* ProcessChatRequest.execute up to the call of the model port
Execute(r) ==
  /\ req[r].pc = "execute"
  /\ \E uuid \in UUIDs, startedAt \in Times :
       LET slot == [req[r] EXCEPT !.steps = Append(@, "execute"),
                                  !.executeCalls = @ + 1,
                                  !.requestId = "req_" \o uuid,
                                  !.startedAt = startedAt]
           prologue == IF slot.chatRequest \in DOMAIN Prologues
                       THEN Prologues[slot.chatRequest]
                       ELSE ExecutePrologue(slot.chatRequest)
       IN req' = [req EXCEPT ![r] =
                    IF prologue.err # NoError
                    THEN ChatFail(slot, prologue.err)
                    ELSE [slot EXCEPT !.pc = "sendRequest", !.messages = prologue.msgs,
                                      !.family = RequestedFamily(slot.chatRequest)]]
  /\ UNCHANGED <<config, cachedModel, cachedModelInfo, server, listeners, calls>>

-----------------------------------------------------------------------------
(* VSCodeLanguageModelAdapter.sendRequest and selectAndCacheModel *)

\* The default family the adapter was constructed with
AdapterDefaultFamily == DefaultFamily

\* sendRequest after the model is known: the messages are prepared and the
\* model is called
CallModel(slot) ==
  LET vscodeMessages == prepareMessages(slot.messages)
  IN IF Len(vscodeMessages) = 0
     THEN ChatFail(slot, Thrown("Error", "No valid messages after processing"))
     ELSE [slot EXCEPT !.pc = "modelCall", !.model = cachedModel,
                       !.prepared = Some(vscodeMessages),
                       !.providerCalls = @ + 1]

\* sendRequest that selects a model for every request, cached or not
SendRequestAlwaysSelects(r) ==
  /\ req[r].pc = "sendRequest"
  /\ LET family == EffectiveFamily(req[r].family, AdapterDefaultFamily)
         slot == [req[r] EXCEPT !.steps = Append(@, "sendRequest"),
                                !.sendCalls = @ + 1, !.family = family]
     IN req' = [req EXCEPT ![r] =
                  IF TriesFamily(family)
                  THEN [slot EXCEPT !.pc = "selectFamily", !.providerCalls = @ + 1,
                                    !.steps = Append(@, "selectFamily")]
                  ELSE [slot EXCEPT !.pc = "selectAny", !.providerCalls = @ + 1,
                                    !.steps = Append(@, "selectAny")]]
  /\ UNCHANGED <<config, cachedModel, cachedModelInfo, server, listeners, calls>>

\* sendRequest is entered: a cached model is used as it is, otherwise the
\* selection starts with the requested family or directly with the fallback
SendRequest(r) ==
  /\ req[r].pc = "sendRequest"
  /\ LET family == EffectiveFamily(req[r].family, AdapterDefaultFamily)
         slot == [req[r] EXCEPT !.steps = Append(@, "sendRequest"),
                                !.sendCalls = @ + 1, !.family = family]
     IN req' = [req EXCEPT ![r] =
                  IF cachedModel # None THEN CallModel(slot)
                  ELSE IF TriesFamily(family)
                       THEN [slot EXCEPT !.pc = "selectFamily", !.providerCalls = @ + 1,
                                         !.steps = Append(@, "selectFamily")]
                       ELSE [slot EXCEPT !.pc = "selectAny", !.providerCalls = @ + 1,
                                         !.steps = Append(@, "selectAny")]]
  /\ UNCHANGED <<config, cachedModel, cachedModelInfo, server, listeners, calls>>

\* selectChatModels({vendor, family}) answers
SelectFamilyReturn(r) ==
  /\ req[r].pc = "selectFamily"
  /\ \E models \in FamilyOffers(req[r].family) :
       IF Len(models) = 0
       THEN /\ req' = [req EXCEPT ![r] = [@ EXCEPT !.pc = "selectAny",
                                                    !.providerCalls = @ + 1,
                                                    !.steps = Append(@, "selectAny")]]
            /\ UNCHANGED <<cachedModel, cachedModelInfo>>
       ELSE /\ cachedModel' = Some(models[1])
            /\ cachedModelInfo' = Some(convertToModelInfo(models[1]))
            /\ req' = [req EXCEPT ![r] = [@ EXCEPT !.pc = "selected",
                                                    !.selected = Some(models[1])]]
  /\ UNCHANGED <<config, server, listeners, calls>>

\* A selection that leaves a model cached in the meantime in place
SelectAnyReturnKeepsFirst(r) ==
  /\ req[r].pc = "selectAny"
  /\ \E models \in VendorOffers :
       IF Len(models) = 0
       THEN /\ req' = [req EXCEPT ![r] =
                         ChatFail(req[r], Thrown("ModelUnavailableError",
                           "No Copilot models available. Ensure GitHub Copilot is installed and authenticated."))]
            /\ UNCHANGED <<cachedModel, cachedModelInfo>>
       ELSE /\ cachedModel' = IF cachedModel = None THEN Some(models[1]) ELSE cachedModel
            /\ cachedModelInfo' = IF cachedModel = None
                                  THEN Some(convertToModelInfo(models[1]))
                                  ELSE cachedModelInfo
            /\ req' = [req EXCEPT ![r] = [@ EXCEPT !.pc = "selected",
                                                    !.selected = Some(models[1])]]
  /\ UNCHANGED <<config, server, listeners, calls>>

\* A selection that records model information before it has found a model
SelectAnyReturnWritesInfoFirst(r) ==
  /\ req[r].pc = "selectAny"
  /\ \E models \in VendorOffers :
       IF Len(models) = 0
       THEN /\ req' = [req EXCEPT ![r] =
                         ChatFail(req[r], Thrown("ModelUnavailableError",
                           "No Copilot models available. Ensure GitHub Copilot is installed and authenticated."))]
            /\ cachedModelInfo' = Some(convertToModelInfo(Gpt4o))
            /\ UNCHANGED cachedModel
       ELSE /\ cachedModel' = Some(models[1])
            /\ cachedModelInfo' = Some(convertToModelInfo(models[1]))
            /\ req' = [req EXCEPT ![r] = [@ EXCEPT !.pc = "selected",
                                                    !.selected = Some(models[1])]]
  /\ UNCHANGED <<config, server, listeners, calls>>

\* selectChatModels({vendor}) answers: the fallback to any model
SelectAnyReturn(r) ==
  /\ req[r].pc = "selectAny"
  /\ \E models \in VendorOffers :
       IF Len(models) = 0
       THEN /\ req' = [req EXCEPT ![r] =
                         ChatFail(req[r], Thrown("ModelUnavailableError",
                           "No Copilot models available. Ensure GitHub Copilot is installed and authenticated."))]
            /\ UNCHANGED <<cachedModel, cachedModelInfo>>
       ELSE /\ cachedModel' = Some(models[1])
            /\ cachedModelInfo' = Some(convertToModelInfo(models[1]))
            /\ req' = [req EXCEPT ![r] = [@ EXCEPT !.pc = "selected",
                                                    !.selected = Some(models[1])]]
  /\ UNCHANGED <<config, server, listeners, calls>>

\* sendRequest resumes after selectAndCacheModel: const model = this.cachedModel!
AfterSelect(r) ==
  /\ req[r].pc = "selected"
  /\ req' = [req EXCEPT ![r] = CallModel(req[r])]
  /\ UNCHANGED <<config, cachedModel, cachedModelInfo, server, listeners, calls>>

\* model.sendRequest answers and its text is buffered to the end
ModelCallReturn(r) ==
  /\ req[r].pc = "modelCall"
  /\ \E text \in Replies :
       req' = [req EXCEPT ![r] = [@ EXCEPT !.pc = "finish", !.outputText = Some(text)]]
  /\ UNCHANGED <<config, cachedModel, cachedModelInfo, server, listeners, calls>>

\* A failed model call that is sent again instead of being reported
ModelCallThrowRetries(r) ==
  /\ req[r].pc = "modelCall"
  /\ \E err \in ProviderThrows :
       req' = [req EXCEPT ![r] = [@ EXCEPT !.pc = "sendRequest", !.thrown = err]]
  /\ UNCHANGED <<config, cachedModel, cachedModelInfo, server, listeners, calls>>

\* model.sendRequest, or the reading of its text, throws
ModelCallThrow(r) ==
  /\ req[r].pc = "modelCall"
  /\ \E err \in ProviderThrows : req' = [req EXCEPT ![r] = ChatFail(req[r], err)]
  /\ UNCHANGED <<config, cachedModel, cachedModelInfo, server, listeners, calls>>

\* VSCodeLanguageModelAdapter.getCurrentModel
getCurrentModel == cachedModelInfo

\* execute with a missing model reported as a validation failure
FinishNoModelIsValidationError(r) ==
  /\ req[r].pc = "finish"
  /\ \E endedAt \in {t \in Times : t >= req[r].startedAt} :
       LET currentModel == getCurrentModel
           envelope == [id |-> req[r].requestId,
                        model |-> [vendor |-> currentModel[1].vendor,
                                   family |-> currentModel[1].family],
                        output_text |-> req[r].outputText[1],
                        meta |-> [startedAt |-> toISOString(req[r].startedAt),
                                  endedAt |-> toISOString(endedAt)]]
       IN req' = [req EXCEPT ![r] =
                    IF currentModel = None
                    THEN ChatFail(req[r], Thrown("ValidationError",
                                                 "No model information available"))
                    ELSE Respond(req[r], ChatSuccessResponse(req[r].url, envelope))]
  /\ UNCHANGED <<config, cachedModel, cachedModelInfo, server, listeners, calls>>

\* execute after the model port returned, and the success branch of the handler
Finish(r) ==
  /\ req[r].pc = "finish"
  /\ \E endedAt \in {t \in Times : t >= req[r].startedAt} :
       LET currentModel == getCurrentModel
           envelope == [id |-> req[r].requestId,
                        model |-> [vendor |-> currentModel[1].vendor,
                                   family |-> currentModel[1].family],
                        output_text |-> req[r].outputText[1],
                        meta |-> [startedAt |-> toISOString(req[r].startedAt),
                                  endedAt |-> toISOString(endedAt)]]
       IN req' = [req EXCEPT ![r] =
                    IF currentModel = None
                    THEN ChatFail(req[r], Thrown("Error", "No model information available"))
                    ELSE Respond(req[r], ChatSuccessResponse(req[r].url, envelope))]
  /\ UNCHANGED <<config, cachedModel, cachedModelInfo, server, listeners, calls>>

-----------------------------------------------------------------------------
(* routes.ts: the models handler *)

\* listAvailableModels answers and ListModels.execute maps the list
ListModelsReturn(r) ==
  /\ req[r].pc = "listModels"
  /\ \E models \in VendorOffers :
       LET infos == [i \in 1..Len(models) |-> convertToModelInfo(models[i])]
       IN req' = [req EXCEPT ![r] =
                    Respond([req[r] EXCEPT !.listed = Some(infos)],
                            [status |-> 200,
                             contentType |-> Some("application/json"),
                             body |-> [kind |-> "models",
                                       value |-> ListModelsResponse(infos)]])]
  /\ UNCHANGED <<config, cachedModel, cachedModelInfo, server, listeners, calls>>

\* listAvailableModels throws: the catch block of handleModelsRequest
ListModelsThrow(r) ==
  /\ req[r].pc = "listModels"
  /\ \E err \in ProviderThrows :
       req' = [req EXCEPT ![r] =
                 Respond([req[r] EXCEPT !.thrown = err,
                            !.log = Append(@, [level |-> "error",
                                               message |-> "[Error] Models request failed"])],
                         sendError(500, "Internal Server Error", err.message))]
  /\ UNCHANGED <<config, cachedModel, cachedModelInfo, server, listeners, calls>>

-----------------------------------------------------------------------------
(* The system *)

Next ==
  \/ ConfigChange
  \/ \E r \in DOMAIN req :
       \/ Arrive(r)
       \/ Close(r)
       \/ SetCors(r)
       \/ Preflight(r)
       \/ CheckLocalhost(r)
       \/ CheckToken(r)
       \/ RouteMatch(r)
       \/ ReadChunk(r)
       \/ EndOfBody(r)
       \/ Execute(r)
       \/ SendRequest(r)
       \/ SelectFamilyReturn(r)
       \/ SelectAnyReturn(r)
       \/ AfterSelect(r)
       \/ ModelCallReturn(r)
       \/ ModelCallThrow(r)
       \/ Finish(r)
       \/ ListModelsReturn(r)
       \/ ListModelsThrow(r)

Spec == Init /\ [][Next]_vars

\* The steps of handleRequest and of the handlers for the request in a slot:
\* everything but its arrival and the closing of its connection
Handle(r) ==
  \/ SetCors(r)
  \/ Preflight(r)
  \/ CheckLocalhost(r)
  \/ CheckToken(r)
  \/ RouteMatch(r)
  \/ ReadChunk(r)
  \/ EndOfBody(r)
  \/ Execute(r)
  \/ SendRequest(r)
  \/ SelectFamilyReturn(r)
  \/ SelectAnyReturn(r)
  \/ AfterSelect(r)
  \/ ModelCallReturn(r)
  \/ ModelCallThrow(r)
  \/ Finish(r)
  \/ ListModelsReturn(r)
  \/ ListModelsThrow(r)

\* One request from its arrival to its response: a local or a foreign
\* peer, with or without the token, under each configuration, with the
\* cache empty or filled by an earlier request
InitLive ==
  /\ \E token \in Tokens, maxBodyBytes \in BodyLimits :
       config = [port |-> DefaultPort, bindAddress |-> DefaultBindAddress,
                 token |-> token, defaultFamily |-> DefaultFamily,
                 maxBodyBytes |-> maxBodyBytes]
  /\ \E method \in Methods, url \in Urls,
        remoteAddress \in {Some("127.0.0.1"), Some("10.0.0.1")},
        authorization \in {None, Some("Bearer abc")} :
       req = [r \in Reqs |->
                [IdleReq EXCEPT !.pc = NextGate("config"), !.method = method, !.url = url,
                                !.remoteAddress = remoteAddress,
                                !.authorization = authorization,
                                !.cfg = Some(config), !.steps = <<"config">>]]
  /\ \E cached \in {None, Some(Gpt4o), Some(Claude)} :
       /\ cachedModel = cached
       /\ cachedModelInfo = IF cached = None THEN None
                            ELSE Some(convertToModelInfo(cached[1]))
  /\ Serving

NextLive == \E r \in DOMAIN req : Handle(r)

\* The event loop runs every continuation that is ready, the body stream
\* of a request ends, and every call of the provider returns or throws
SpecLive == InitLive /\ [][NextLive]_vars /\ \A r \in Reqs : WF_vars(Handle(r))

-----------------------------------------------------------------------------
(* adapters/input/http-server/server.ts: start, stop, isRunning.  A call    *)
(* runs up to its await in one step; the listener answers in a later step. *)

\* The bind addresses the user may configure
BindAddresses == {"127.0.0.1", "localhost", "0.0.0.0", "2001:db8::1"}

\* The error codes with which listen() may fail
BindErrors == {"EADDRINUSE", "EACCES"}

\* The user edits the bind address setting
BindingChange ==
  /\ \E bindAddress \in BindAddresses : config' = [config EXCEPT !.bindAddress = bindAddress]
  /\ config' # config
  /\ UNCHANGED <<req, cachedModel, cachedModelInfo, server, listeners, calls>>

\* HttpServerAdapter.normalizeBindAddress
normalizeBindAddress(bindAddress) ==
  IF \/ Includes(bindAddress, "127.0.0.1")
     \/ Includes(bindAddress, "localhost")
     \/ Includes(bindAddress, "::1")
  THEN bindAddress
  ELSE "127.0.0.1"

\* HttpServerAdapter.isRunning
isRunning == server # None

\* start() without its test of this.server
startUnguarded ==
  /\ Len(calls) < MaxCalls
  /\ LET bindAddress == normalizeBindAddress(config.bindAddress)
         id == Len(listeners) + 1
     IN /\ listeners' = Append(listeners, Listener("binding", bindAddress, config.port))
        /\ server' = Some(id)
        /\ calls' = Append(calls, Call("start", "pending", "", id, TRUE,
                              <<"[Server] Starting on " \o bindAddress \o ":"
                                  \o NatToString(config.port)>>))
  /\ UNCHANGED <<config, req, cachedModel, cachedModelInfo>>

\* start(), up to the await of the listen promise
start ==
  /\ Len(calls) < MaxCalls
  /\ IF server # None
     THEN /\ calls' = Append(calls, Call("start", "rejected", "Server is already running",
                                         0, FALSE, <<>>))
          /\ UNCHANGED <<server, listeners>>
     ELSE LET bindAddress == normalizeBindAddress(config.bindAddress)
              id == Len(listeners) + 1
          IN /\ listeners' = Append(listeners,
                                    Listener("binding", bindAddress, config.port))
             /\ server' = Some(id)
             /\ calls' = Append(calls, Call("start", "pending", "", id, TRUE,
                                   <<"[Server] Starting on " \o bindAddress \o ":"
                                       \o NatToString(config.port)>>))
  /\ UNCHANGED <<config, req, cachedModel, cachedModelInfo>>

\* The calls, with the pending calls of that kind on listener i ended
Settle(op, i, state, error, line) ==
  [c \in DOMAIN calls |->
     IF calls[c].op = op /\ calls[c].listener = i /\ calls[c].state = "pending"
          /\ ~calls[c].unbound
     THEN [calls[c] EXCEPT !.state = state, !.error = error, !.log = Append(@, line)]
     ELSE calls[c]]

\* The listen callback: the listener is bound and start() resolves.  The
\* port is not held by another listener of this process.
ListenOk(i) ==
  /\ listeners[i].state = "binding"
  /\ \A j \in DOMAIN listeners :
       listeners[j].state \in {"listening", "closing"} => listeners[j].port # listeners[i].port
  /\ listeners' = [listeners EXCEPT ![i].state = "listening"]
  /\ calls' = Settle("start", i, "resolved", "",
                     "[Server] Listening on http://" \o listeners[i].host \o ":"
                       \o NatToString(listeners[i].port))
  /\ UNCHANGED <<config, req, cachedModel, cachedModelInfo, server>>

\* The 'error' handler without its this.server = null
ListenErrorKeepsServer(i) ==
  /\ listeners[i].state = "binding"
  /\ \E code \in BindErrors :
       calls' = Settle("start", i, "rejected", code, "[Server] Failed to start")
  /\ listeners' = [listeners EXCEPT ![i].state = "failed"]
  /\ UNCHANGED <<config, req, cachedModel, cachedModelInfo, server>>

\* The 'error' handler: binding failed, this.server = null, start() rejects
ListenError(i) ==
  /\ listeners[i].state = "binding"
  /\ \E code \in BindErrors :
       calls' = Settle("start", i, "rejected", code, "[Server] Failed to start")
  /\ listeners' = [listeners EXCEPT ![i].state = "failed"]
  /\ server' = None
  /\ UNCHANGED <<config, req, cachedModel, cachedModelInfo>>

\* stop(), up to the await of the close promise.  close() on a listener
\* that is bound stops it from accepting; on a listener that is still
\* binding, close() either finds the handle and gives the bind up, or finds
\* none and only schedules its callback.
stop ==
  /\ Len(calls) < MaxCalls
  /\ IF server = None
     THEN /\ calls' = Append(calls, Call("stop", "rejected", "Server is not running",
                                         0, FALSE, <<>>))
          /\ UNCHANGED <<server, listeners>>
     ELSE LET i == server[1]
              call == Call("stop", "pending", "", i, FALSE, <<"[Server] Stopping...">>)
          IN /\ \/ /\ listeners[i].state \in {"listening", "closing", "binding"}
                   /\ listeners' = [listeners EXCEPT ![i].state = "closing"]
                   /\ calls' = Append(calls, call)
                \/ /\ listeners[i].state \notin {"listening", "closing"}
                   /\ listeners' = listeners
                   /\ calls' = Append(calls, [call EXCEPT !.unbound = TRUE])
             /\ UNCHANGED server
  /\ UNCHANGED <<config, req, cachedModel, cachedModelInfo>>

\* The close callback of a listener whose connections have all ended: the
\* stop() calls waiting for it resolve and each sets this.server = null
CloseDone(i) ==
  /\ listeners[i].state = "closing"
  /\ \A r \in DOMAIN req : req[r].pc = "idle"
  /\ listeners' = [listeners EXCEPT ![i].state = "closed"]
  /\ calls' = Settle("stop", i, "resolved", "", "[Server] Stopped")
  /\ server' = None
  /\ UNCHANGED <<config, req, cachedModel, cachedModelInfo>>

\* The close callback of a close() that found no handle
CloseUnboundDone(c) ==
  /\ calls[c].op = "stop" /\ calls[c].state = "pending" /\ calls[c].unbound
  /\ calls' = [calls EXCEPT ![c].state = "resolved",
                             ![c].log = Append(@, "[Server] Stopped")]
  /\ server' = None
  /\ UNCHANGED <<config, req, cachedModel, cachedModelInfo, listeners>>

InitLifecycle ==
  /\ config = [port |-> DefaultPort, bindAddress |-> DefaultBindAddress, token |-> "",
               defaultFamily |-> DefaultFamily, maxBodyBytes |-> DefaultMaxBodyBytes]
  /\ req = [r \in Reqs |-> IdleReq]
  /\ cachedModel = None
  /\ cachedModelInfo = None
  /\ server = None /\ listeners = <<>> /\ calls = <<>>

NextLifecycle ==
  \/ BindingChange
  \/ start
  \/ stop
  \/ \E i \in DOMAIN listeners : ListenOk(i) \/ ListenError(i) \/ CloseDone(i)
  \/ \E c \in DOMAIN calls : CloseUnboundDone(c)

SpecLifecycle == InitLifecycle /\ [][NextLifecycle]_vars

-----------------------------------------------------------------------------
(* readBodyWithLimit taken alone: a chat request that has passed the gates  *)
(* reads, under every limit up to MaxLimit, every stream of up to MaxChunks *)
(* chunks                                                                   *)

ChunkTexts == {"a", "bc", "def"}

RECURSIVE StreamsUpTo(_)
StreamsUpTo(n) ==
  IF n = 0 THEN {<<>>}
  ELSE StreamsUpTo(n - 1)
       \cup {Append(stream, chunk) : stream \in {s \in StreamsUpTo(n - 1) : Len(s) = n - 1},
                                      chunk \in ChunkTexts}

InitBody ==
  /\ config = [port |-> DefaultPort, bindAddress |-> DefaultBindAddress, token |-> "",
               defaultFamily |-> DefaultFamily, maxBodyBytes |-> DefaultMaxBodyBytes]
  /\ \E maxBytes \in 0..MaxLimit, stream \in StreamsUpTo(MaxChunks) :
       req = [r \in Reqs |->
                [IdleReq EXCEPT !.pc = "readBody", !.method = "POST", !.url = "/v1/chat",
                                !.remoteAddress = Some("127.0.0.1"),
                                !.cfg = Some([config EXCEPT !.maxBodyBytes = maxBytes]),
                                !.headers = setCorsHeaders({}),
                                !.steps = <<"config", "cors", "preflight", "localhost",
                                            "auth", "route">>,
                                !.sent = stream, !.stream = stream]]
  /\ cachedModel = None
  /\ cachedModelInfo = None
  /\ Serving

NextBody == \E r \in DOMAIN req : ReadChunk(r) \/ EndOfBody(r)

SpecBody == InitBody /\ [][NextBody]_vars

-----------------------------------------------------------------------------
(* The ChatMessage constructor taken alone, on every pair of a role and a   *)
(* content out of MessageRoles and MessageContents                          *)

MessageRoles ==
  {JUndefined, JNull, JNum(5), JArr(<<JStr("user")>>), JStr(""), JStr("system"),
   JStr("user"), JStr("assistant"), JStr("invalid"), JStr("User"), JStr(" user")}

MessageContents ==
  {JUndefined, JNull, JNum(5), JBool(TRUE), JArr(<<>>), JStr(""), JStr("   "),
   JStr("\n\t"), JStr("Hello"), JStr(" Hi ")}

InitMessage ==
  /\ config = [port |-> DefaultPort, bindAddress |-> DefaultBindAddress, token |-> "",
               defaultFamily |-> DefaultFamily, maxBodyBytes |-> DefaultMaxBodyBytes]
  /\ \E role \in MessageRoles, content \in MessageContents :
       req = [r \in Reqs |->
                [IdleReq EXCEPT !.pc = "construct",
                                !.chatRequest = JObj([role |-> role, content |-> content])]]
  /\ cachedModel = None
  /\ cachedModelInfo = None
  /\ server = None /\ listeners = <<>> /\ calls = <<>>

\* new ChatMessage(msg.role, msg.content)
Construct(r) ==
  /\ req[r].pc = "construct"
  /\ LET msg == req[r].chatRequest
         made == NewChatMessage(GetProp(msg, "role"), GetProp(msg, "content"))
     IN req' = [req EXCEPT ![r] = [@ EXCEPT !.pc = "constructed", !.thrown = made.err,
                                            !.messages = made.msg]]
  /\ UNCHANGED <<config, cachedModel, cachedModelInfo, server, listeners, calls>>

NextMessage == \E r \in DOMAIN req : Construct(r)

SpecMessage == InitMessage /\ [][NextMessage]_vars

-----------------------------------------------------------------------------
(* ProcessChatRequest behind the chat handler with a stubbed model port, as *)
(* in the unit and integration tests: sendRequest answers or throws, and    *)
(* getCurrentModel answers what the stub was given, possibly null           *)

\* mockLanguageModelPort.getCurrentModel: the value the stub returns
StubCurrentModels == {None, Some(convertToModelInfo(Gpt4o)), Some(convertToModelInfo(Claude))}

InitUseCase ==
  /\ config = [port |-> DefaultPort, bindAddress |-> DefaultBindAddress, token |-> "",
               defaultFamily |-> DefaultFamily, maxBodyBytes |-> DefaultMaxBodyBytes]
  /\ \E body \in {b \in Bodies : JsonParse(b).ok}, url \in {"/v1/chat", "/v1/chat/completions"} :
       req = [r \in Reqs |->
                [IdleReq EXCEPT !.pc = "execute", !.method = "POST", !.url = url,
                                !.remoteAddress = Some("127.0.0.1"),
                                !.cfg = Some(config),
                                !.headers = setCorsHeaders({}),
                                !.steps = <<"config", "cors", "preflight", "localhost",
                                            "auth", "route", "readBody", "parse">>,
                                !.sent = <<body>>, !.chunks = <<body>>,
                                !.totalBytes = Len(body), !.body = Some(body),
                                !.chatRequest = JsonParse(body).val]]
  /\ cachedModel = None
  /\ cachedModelInfo \in StubCurrentModels
  /\ Serving

\* mockLanguageModelPort.sendRequest: resolves with a text or rejects
StubSendRequest(r) ==
  /\ req[r].pc = "sendRequest"
  /\ LET slot == [req[r] EXCEPT !.steps = Append(@, "sendRequest"), !.sendCalls = @ + 1]
     IN \/ \E text \in Replies :
             req' = [req EXCEPT ![r] = [slot EXCEPT !.pc = "finish",
                                                   !.outputText = Some(text)]]
        \/ \E err \in ProviderThrows : req' = [req EXCEPT ![r] = ChatFail(slot, err)]
  /\ UNCHANGED <<config, cachedModel, cachedModelInfo, server, listeners, calls>>

NextUseCase == \E r \in DOMAIN req : Execute(r) \/ StubSendRequest(r) \/ Finish(r)

SpecUseCase == InitUseCase /\ [][NextUseCase]_vars

-----------------------------------------------------------------------------
(* ListModels behind the models handler with a stubbed model port, as in    *)
(* the unit tests: listAvailableModels answers a list of ModelInfo objects  *)
(* built by the caller, or throws                                           *)

\* The longest list the stubbed port answers
MaxListed == 3

\* new ModelInfo(id, vendor, family, name, maxInputTokens, version,
\* additionalProperties)
NewModelInfo(id, vendor, family, name, maxInputTokens, version, additionalProperties) ==
  [id |-> id, vendor |-> vendor, family |-> family, name |-> name,
   maxInputTokens |-> maxInputTokens, version |-> version,
   additionalProperties |-> additionalProperties]

\* The additional properties the ModelInfo objects are built with
StubProperties ==
  {[customField |-> "customValue"],
   [id |-> "shadow"],
   [vendor |-> "other-vendor"],
   [family |-> "other-family", name |-> "Other Model"],
   [capabilities |-> "vision", id |-> "copilot-gpt-4o"]}

StubModelInfos ==
  {NewModelInfo("test-id", "test-vendor", "test-family", "Test Model", 1000,
                Some("1.0"), properties) : properties \in StubProperties}

\* mockLanguageModelPort.listAvailableModels: the lists the stub answers
StubLists == UNION {[1..n -> StubModelInfos] : n \in 0..MaxListed}

InitListModels ==
  /\ config = [port |-> DefaultPort, bindAddress |-> DefaultBindAddress, token |-> "",
               defaultFamily |-> DefaultFamily, maxBodyBytes |-> DefaultMaxBodyBytes]
  /\ req = [r \in Reqs |->
              [IdleReq EXCEPT !.pc = "listModels", !.method = "GET", !.url = "/v1/models",
                              !.remoteAddress = Some("127.0.0.1"),
                              !.cfg = Some(config),
                              !.headers = setCorsHeaders({}),
                              !.steps = <<"config", "cors", "preflight", "localhost",
                                          "auth", "route", "listModels">>]]
  /\ cachedModel = None
  /\ cachedModelInfo = None
  /\ Serving

\* The stubbed listAvailableModels answers and ListModels.execute maps the list
StubListModelsReturn(r) ==
  /\ req[r].pc = "listModels"
  /\ \E infos \in StubLists :
       req' = [req EXCEPT ![r] =
                 Respond([req[r] EXCEPT !.listed = Some(infos)],
                         [status |-> 200,
                          contentType |-> Some("application/json"),
                          body |-> [kind |-> "models",
                                    value |-> ListModelsResponse(infos)]])]
  /\ UNCHANGED <<config, cachedModel, cachedModelInfo, server, listeners, calls>>

NextListModels == \E r \in DOMAIN req : StubListModelsReturn(r) \/ ListModelsThrow(r)

SpecListModels == InitListModels /\ [][NextListModels]_vars

-----------------------------------------------------------------------------
(* The chat handler on conversations of up to MaxMessages messages, with a  *)
(* model already cached: execute builds the domain messages and sendRequest *)
(* prepares them for the provider                                           *)

\* The longest conversation a client sends
MaxMessages == 3

\* The messages conversations are made of
ConversationMessages ==
  {[role |-> "system", content |-> "Be brief"],
   [role |-> "system", content |-> "Use French"],
   [role |-> "user", content |-> "Hi"],
   [role |-> "user", content |-> "Bye"],
   [role |-> "assistant", content |-> "Sure"]}

Conversations == UNION {[1..n -> ConversationMessages] : n \in 1..MaxMessages}

RECURSIVE MessagesText(_)
\* The JSON text of the members of a messages array
MessagesText(messages) ==
  IF messages = <<>> THEN ""
  ELSE "{\"role\":\"" \o Head(messages).role \o "\",\"content\":\""
         \o Head(messages).content \o "\"}"
         \o (IF Len(messages) > 1 THEN "," ELSE "") \o MessagesText(Tail(messages))

\* The request body a client sends for a conversation
ConversationBody(messages) == "{\"messages\":[" \o MessagesText(messages) \o "]}"

InitPrepare ==
  /\ config = [port |-> DefaultPort, bindAddress |-> DefaultBindAddress, token |-> "",
               defaultFamily |-> DefaultFamily, maxBodyBytes |-> DefaultMaxBodyBytes]
  /\ \E conversation \in Conversations :
       LET body == ConversationBody(conversation)
       IN req = [r \in Reqs |->
                   [IdleReq EXCEPT !.pc = "execute", !.method = "POST", !.url = "/v1/chat",
                                   !.remoteAddress = Some("127.0.0.1"),
                                   !.cfg = Some(config),
                                   !.headers = setCorsHeaders({}),
                                   !.steps = <<"config", "cors", "preflight", "localhost",
                                               "auth", "route", "readBody", "parse">>,
                                   !.sent = <<body>>, !.chunks = <<body>>,
                                   !.totalBytes = Len(body), !.body = Some(body),
                                   !.chatRequest = JsonParse(body).val]]
  /\ cachedModel = Some(Gpt4o)
  /\ cachedModelInfo = Some(convertToModelInfo(Gpt4o))
  /\ Serving

NextPrepare == \E r \in DOMAIN req : Execute(r) \/ SendRequest(r)

SpecPrepare == InitPrepare /\ [][NextPrepare]_vars

-----------------------------------------------------------------------------
(* The adapter from its construction on, started and stopped while a local  *)
(* client sends chat requests: the lifecycle calls and the request steps    *)
(* together, for one kind of request                                        *)

\* The request of the local client: POST /v1/chat without a token
LocalChat(slot) ==
  /\ slot.method = "POST" /\ slot.url = "/v1/chat"
  /\ slot.remoteAddress = Some("127.0.0.1") /\ slot.authorization = None

\* Its body, sent in one chunk, and what the clock, the id generator and the
\* model give for it
OneTurn(slot) ==
  /\ slot.sent \in {<<>>, <<"{\"messages\":[{\"role\":\"user\",\"content\":\"Hello\"}]}">>}
  /\ slot.requestId \in {"", "req_3f0c2a6e-5b1d-4c8e-9a7f-0d2b4e6a8c10"}
  /\ slot.startedAt \in {0, 1000}
  /\ slot.outputText \in {None, Some("4")}

NextRestart ==
  \/ start
  \/ stop
  \/ \E i \in DOMAIN listeners : ListenOk(i) \/ ListenError(i) \/ CloseDone(i)
  \/ \E c \in DOMAIN calls : CloseUnboundDone(c)
  \/ \E r \in DOMAIN req :
       \/ Arrive(r) /\ LocalChat(req'[r])
       \/ Close(r)
       \/ SetCors(r)
       \/ Preflight(r)
       \/ CheckLocalhost(r)
       \/ CheckToken(r)
       \/ RouteMatch(r) /\ OneTurn(req'[r])
       \/ ReadChunk(r)
       \/ EndOfBody(r)
       \/ Execute(r) /\ OneTurn(req'[r])
       \/ SendRequest(r)
       \/ SelectFamilyReturn(r)
       \/ SelectAnyReturn(r)
       \/ AfterSelect(r)
       \/ ModelCallReturn(r) /\ OneTurn(req'[r])
       \/ Finish(r)

SpecRestart == InitLifecycle /\ [][NextRestart]_vars

-----------------------------------------------------------------------------
(* Two local clients at once on a running server with an empty cache: the   *)
(* steps of their chat requests interleave at every await                   *)

RaceReqs == {1, 2}

\* The bodies of the two clients, sent in one chunk, one without and one
\* with a model family, and what the clock, the id generator and the model
\* give for them
TwoClients(slot) ==
  /\ slot.sent \in {<<>>,
                    <<"{\"messages\":[{\"role\":\"user\",\"content\":\"Hello\"}]}">>,
                    <<"{\"messages\":[{\"role\":\"system\",\"content\":\"Be brief\"},{\"role\":\"user\",\"content\":\"Hi\"}],\"model\":{\"family\":\"claude-3.5-sonnet\"}}">>}
  /\ slot.requestId \in {"", "req_3f0c2a6e-5b1d-4c8e-9a7f-0d2b4e6a8c10"}
  /\ slot.startedAt \in {0, 1000}
  /\ slot.outputText \in {None, Some("4")}

InitRace ==
  /\ config = [port |-> DefaultPort, bindAddress |-> DefaultBindAddress, token |-> "",
               defaultFamily |-> DefaultFamily, maxBodyBytes |-> DefaultMaxBodyBytes]
  /\ req = [r \in RaceReqs |-> IdleReq]
  /\ cachedModel = None
  /\ cachedModelInfo = None
  /\ Serving

\* A step of the request in slot r
RaceStep(r) ==
  \/ Arrive(r) /\ LocalChat(req'[r])
  \/ SetCors(r)
  \/ Preflight(r)
  \/ CheckLocalhost(r)
  \/ CheckToken(r)
  \/ RouteMatch(r) /\ TwoClients(req'[r])
  \/ ReadChunk(r)
  \/ EndOfBody(r)
  \/ Execute(r) /\ TwoClients(req'[r])
  \/ SendRequest(r)
  \/ SelectFamilyReturn(r)
  \/ SelectAnyReturn(r)
  \/ AfterSelect(r)
  \/ ModelCallReturn(r) /\ TwoClients(req'[r])
  \/ Finish(r)

NextRace == \E r \in DOMAIN req : RaceStep(r)

\* The event loop runs every continuation that is ready, both clients send
\* their request, and every call of the provider returns
SpecRace == InitRace /\ [][NextRace]_vars /\ \A r \in RaceReqs : WF_vars(RaceStep(r))

-----------------------------------------------------------------------------
(* The server while the user edits every setting a request reads: the      *)
(* token, the body limit and the default family                             *)

\* The values of copilotBridge.defaultFamily the user chooses among
DefaultFamilies == {"gpt-4o", "auto"}

\* The user edits the default family setting
FamilyChange ==
  /\ \E family \in DefaultFamilies : config' = [config EXCEPT !.defaultFamily = family]
  /\ config' # config
  /\ UNCHANGED <<req, cachedModel, cachedModelInfo, server, listeners, calls>>

NextSnapshot == Next \/ FamilyChange

SpecSnapshot == Init /\ [][NextSnapshot]_vars

-----------------------------------------------------------------------------
(* Two local clients of which either may close its connection while its     *)
(* request is suspended in the model port; the provider answers or throws   *)

\* A disconnect that cancels the token of the model call and ends the call
DisconnectCancels(r) ==
  /\ req[r].pc \in {"selectFamily", "selectAny", "selected", "modelCall", "finish"}
  /\ ~req[r].aborted
  /\ req' = [req EXCEPT ![r] =
               ChatFail([@ EXCEPT !.aborted = TRUE, !.cancellationRequested = TRUE],
                        Thrown("Error", "Canceled"))]
  /\ UNCHANGED <<config, cachedModel, cachedModelInfo, server, listeners, calls>>

\* The client closes its connection after its body was read: the socket is
\* gone, and no handler of the request listens for that
Disconnect(r) ==
  /\ req[r].pc \in {"selectFamily", "selectAny", "selected", "modelCall", "finish"}
  /\ ~req[r].aborted
  /\ req' = [req EXCEPT ![r] = [@ EXCEPT !.aborted = TRUE]]
  /\ UNCHANGED <<config, cachedModel, cachedModelInfo, server, listeners, calls>>

\* A step of the request in slot r: those of two racing clients, and a
\* model call that throws
DisconnectStep(r) == RaceStep(r) \/ ModelCallThrow(r)

NextDisconnect == \E r \in DOMAIN req : DisconnectStep(r) \/ Disconnect(r)

\* The event loop runs every continuation that is ready and every call of
\* the provider returns or throws; a client may or may not disconnect
SpecDisconnect ==
  InitRace /\ [][NextDisconnect]_vars /\ \A r \in RaceReqs : WF_vars(DisconnectStep(r))

-----------------------------------------------------------------------------
(* ProcessChatRequest with a stubbed model port on conversations of up to   *)
(* MaxMessages messages, with and without a model member                    *)

\* The JSON text of the model member of a request, with its comma
ModelMembers ==
  {"",
   ",\"model\":null",
   ",\"model\":{}",
   ",\"model\":{\"family\":\"\"}",
   ",\"model\":{\"family\":\"claude-3.5-sonnet\"}"}

InitExecute ==
  /\ config = [port |-> DefaultPort, bindAddress |-> DefaultBindAddress, token |-> "",
               defaultFamily |-> DefaultFamily, maxBodyBytes |-> DefaultMaxBodyBytes]
  /\ \E conversation \in Conversations, member \in ModelMembers :
       LET body == "{\"messages\":[" \o MessagesText(conversation) \o "]" \o member \o "}"
       IN req = [r \in Reqs |->
                   [IdleReq EXCEPT !.pc = "execute", !.method = "POST", !.url = "/v1/chat",
                                   !.remoteAddress = Some("127.0.0.1"),
                                   !.cfg = Some(config),
                                   !.headers = setCorsHeaders({}),
                                   !.steps = <<"config", "cors", "preflight", "localhost",
                                               "auth", "route", "readBody", "parse">>,
                                   !.sent = <<body>>, !.chunks = <<body>>,
                                   !.totalBytes = Len(body), !.body = Some(body),
                                   !.chatRequest = JsonParse(body).val]]
  /\ cachedModel = None
  /\ cachedModelInfo = Some(convertToModelInfo(Gpt4o))
  /\ Serving

SpecExecute == InitExecute /\ [][NextUseCase]_vars

-----------------------------------------------------------------------------
(* Properties *)

\* The step has been taken by the request in the slot
Did(slot, name) == \E i \in 1..Len(slot.steps) : slot.steps[i] = name

\* Peer addresses of other hosts, and the absent address
NonLoopbackPeers == {None, Some("10.0.0.1"), Some("192.168.1.1:54321")}

\* The token test as the interface states it, on the request's own snapshot
TokenAccepted(slot) ==
  \/ slot.cfg[1].token = ""
  \/ slot.authorization = Some("Bearer " \o slot.cfg[1].token)

ErrorResponse(status, error, details) ==
  [status |-> status, contentType |-> Some("application/json"),
   body |-> [kind |-> "error", error |-> error, details |-> Some(details)]]

\* Nothing of the body was read and nothing behind the gates was called
Untouched(slot) ==
  /\ slot.sent = <<>> /\ slot.chunks = <<>> /\ slot.totalBytes = 0 /\ slot.body = None
  /\ slot.executeCalls = 0 /\ slot.sendCalls = 0 /\ slot.providerCalls = 0

\* C1: a request that is not OPTIONS and whose peer address fails isLocalhost
\* never gets past the localhost check, is answered 403 Forbidden "Only
\* localhost requests are allowed" whatever its method, path and Authorization
\* header, reads no byte of the body and calls neither use case nor the port.
C1_NonLocalhostForbidden ==
  \A r \in DOMAIN req :
    LET s == req[r]
    IN (s.pc # "idle" /\ s.method # "OPTIONS" /\ ~isLocalhost(s.remoteAddress))
         => /\ s.pc \in {"cors", "preflight", "localhost", "done"}
            /\ s.pc = "done" =>
                 s.response = ErrorResponse(403, "Forbidden",
                                            "Only localhost requests are allowed")
            /\ Untouched(s)

C1_Witness ==
  \E r \in DOMAIN req :
    /\ req[r].pc = "done" /\ req[r].method = "GET" /\ req[r].url = "/v1/models"
    /\ req[r].remoteAddress = Some("10.0.0.1")
    /\ req[r].cfg[1].token = "abc" /\ req[r].authorization = Some("Bearer abc")
    /\ req[r].response.status = 403

\* C2: once the token check has run on a request, the request goes on to the
\* route match iff the configured token is empty or its Authorization header
\* is exactly "Bearer <token>"; otherwise it is answered 401 Unauthorized
\* "Invalid or missing bearer token" with no route matched and no body read.
C2_BearerTokenGate ==
  \A r \in DOMAIN req :
    LET s == req[r]
    IN Did(s, "auth")
         => IF TokenAccepted(s)
            THEN s.pc = "route" \/ Did(s, "route")
            ELSE /\ s.pc = "done"
                 /\ s.response = ErrorResponse(401, "Unauthorized",
                                               "Invalid or missing bearer token")
                 /\ ~Did(s, "route")
                 /\ Untouched(s)

C2_Witness ==
  \E r \in DOMAIN req :
    /\ req[r].pc = "done" /\ req[r].cfg[1].token = "abc"
    /\ req[r].authorization = Some("Bearer abc")
    /\ req[r].method = "POST" /\ req[r].url = "/v1/chat"
    /\ req[r].response.status = 200

GateOrder == <<"config", "cors", "preflight", "localhost", "auth", "route">>

\* C4: the steps a request has taken are the gates in the order configuration,
\* CORS, preflight, localhost, token, route, followed by handler steps only,
\* none taken twice; and the first failing gate decides the answer: OPTIONS is
\* 204, else a peer failing isLocalhost is 403 even with a bad token, else a
\* bad token is 401 even for an unknown endpoint.
C4_GateOrder ==
  \A r \in DOMAIN req :
    LET s == req[r]
    IN /\ \A i \in 1..Len(s.steps) :
            IF i <= Len(GateOrder)
            THEN s.steps[i] = GateOrder[i]
            ELSE \A j \in 1..Len(GateOrder) : s.steps[i] # GateOrder[j]
       /\ \A i, j \in 1..Len(s.steps) : i # j => s.steps[i] # s.steps[j]
       /\ s.pc = "done" =>
            IF s.method = "OPTIONS" THEN s.response.status = 204
            ELSE IF ~isLocalhost(s.remoteAddress) THEN s.response.status = 403
            ELSE IF ~TokenAccepted(s) THEN s.response.status = 401
            ELSE s.response.status \notin {204, 403, 401}

C4_Witness ==
  \E r \in DOMAIN req :
    /\ req[r].pc = "done" /\ req[r].method = "POST" /\ req[r].url = "/v1/unknown"
    /\ req[r].remoteAddress = Some("127.0.0.1")
    /\ req[r].cfg[1].token = "abc" /\ req[r].authorization = Some("Basic abc")
    /\ req[r].response.status = 401

\* C5: readBodyWithLimit(stream, N), for every cut of the body into chunks:
\* it returns the concatenation of all chunks iff they total at most N bytes,
\* and throws Error "Request body exceeds maximum size of N bytes" iff they
\* total more than N.
C5_ReadBodyWithLimit ==
  \A r \in DOMAIN req :
    LET s == req[r]
        maxBytes == s.cfg[1].maxBodyBytes
        total == Len(Concat(s.sent))
        rejected == s.thrown # NoError
    IN /\ s.body # None => (total <= maxBytes /\ s.body[1] = Concat(s.sent) /\ ~rejected)
       /\ rejected =>
            /\ total > maxBytes
            /\ s.thrown = Thrown("Error", "Request body exceeds maximum size of "
                                           \o NatToString(maxBytes) \o " bytes")
       /\ s.pc # "readBody" => (total <= maxBytes <=> s.body # None)
       /\ s.pc # "readBody" => (total > maxBytes <=> rejected)

C5_Witness ==
  \E r \in DOMAIN req :
    /\ req[r].cfg[1].maxBodyBytes = 3
    /\ req[r].sent = <<"a", "bc">>
    /\ req[r].body = Some("abc")

C7_InvalidMessageIs400 ==
  \A r \in DOMAIN req :
    (req[r].pc = "done" /\ req[r].thrown.class = "InvalidMessageError")
      => req[r].response = ErrorResponse(400, "Bad Request", req[r].thrown.message)

\* The payload is an object whose messages field is absent or no array
MessagesMissing(request) ==
  request.t = "obj" /\ GetProp(request, "messages").t # "arr"

\* C8: execute on a payload whose messages field is absent or not an array
\* fails with ValidationError "messages array is required" without calling the
\* model port, and the request is answered 400 Bad Request with that message.
C8_MessagesRequired ==
  \A r \in DOMAIN req :
    LET s == req[r]
    IN (s.executeCalls > 0 /\ MessagesMissing(s.chatRequest))
         => /\ s.thrown = Thrown("ValidationError", "messages array is required")
            /\ s.sendCalls = 0 /\ s.providerCalls = 0
            /\ s.pc = "done"
            /\ s.response = ErrorResponse(400, "Bad Request", "messages array is required")

\* C9: execute on a payload whose messages field is an empty array fails with
\* ValidationError "messages array must not be empty" without calling the
\* model port, and the request is answered 400 Bad Request.
C9_MessagesNotEmpty ==
  \A r \in DOMAIN req :
    LET s == req[r]
    IN (s.executeCalls > 0 /\ s.chatRequest.t = "obj"
        /\ GetProp(s.chatRequest, "messages") = JArr(<<>>))
         => /\ s.thrown = Thrown("ValidationError", "messages array must not be empty")
            /\ s.sendCalls = 0 /\ s.providerCalls = 0
            /\ s.pc = "done"
            /\ s.response.status = 400
            /\ s.response.body.error = "Bad Request"

C9_Witness ==
  \E r \in DOMAIN req :
    /\ req[r].pc = "done" /\ req[r].body = Some("{\"messages\":[]}")
    /\ req[r].executeCalls = 1
    /\ req[r].thrown.message = "messages array must not be empty"

\* Bodies that are not well-formed JSON
MalformedBodies == {"", "invalid json", "{\"messages\":[{\"role\":\"user\"}"}

\* C10: a body that was read within the limit and is not well-formed JSON is
\* answered 400 Bad Request "Invalid JSON payload", and execute is not called.
C10_InvalidJson ==
  \A r \in DOMAIN req :
    LET s == req[r]
    IN (s.body # None /\ s.body[1] \in MalformedBodies)
         => /\ s.pc = "done"
            /\ s.response = ErrorResponse(400, "Bad Request", "Invalid JSON payload")
            /\ s.executeCalls = 0 /\ s.sendCalls = 0 /\ s.providerCalls = 0

C10_Witness ==
  \E r \in DOMAIN req :
    /\ req[r].pc = "done" /\ req[r].body = Some("invalid json")
    /\ req[r].response.status = 400

-----------------------------------------------------------------------------
(* Properties of the dispatch layer, continued *)

\* The four names of the local host
LoopbackNames == {"127.0.0.1", "localhost", "::1", "::ffff:127.0.0.1"}

\* A loopback name, alone or followed by ':' and one or more digits
LoopbackForm(addr) ==
  \E name \in LoopbackNames :
    \/ addr = name
    \/ /\ Len(addr) > Len(name) + 1
       /\ SubSeq(addr, 1, Len(name) + 1) = name \o ":"
       /\ \A j \in (Len(name) + 2)..Len(addr) : Char(addr, j) \in Digits

\* C11: isLocalhost is true for 127.0.0.1, localhost, ::1 and
\* ::ffff:127.0.0.1, alone or followed by a ':<digits>' port, and false for
\* an absent address and for every other address: a request passes the
\* localhost check exactly when its peer address has one of these forms.
C11_IsLocalhostContract ==
  \A r \in DOMAIN req :
    LET s == req[r]
    IN Did(s, "localhost")
         => (isLocalhost(s.remoteAddress)
               <=> (s.remoteAddress # None /\ LoopbackForm(s.remoteAddress[1])))

\* C12: every OPTIONS request, whatever its path, peer and Authorization
\* header, is answered 204 with an empty body and the CORS headers, and the
\* dispatch ends there: no localhost check, token check, route match, body
\* read or use case runs for it.
C12_PreflightShortCircuit ==
  \A r \in DOMAIN req :
    LET s == req[r]
    IN s.method = "OPTIONS"
         => /\ s.pc \in {"cors", "preflight", "done"}
            /\ ~Did(s, "localhost") /\ ~Did(s, "auth") /\ ~Did(s, "route")
            /\ Untouched(s)
            /\ s.pc = "done"
                 => /\ s.response = [status |-> 204, contentType |-> None,
                                     body |-> [kind |-> "empty"]]
                    /\ s.writes = 1
                    /\ s.steps = <<"config", "cors", "preflight">>
                    /\ <<"Access-Control-Allow-Origin", "*">> \in s.headers
                    /\ <<"Access-Control-Allow-Methods", "GET, POST, OPTIONS">> \in s.headers
                    /\ <<"Access-Control-Allow-Headers", "Content-Type, Authorization">>
                         \in s.headers

C12_Witness ==
  \E r \in DOMAIN req :
    /\ req[r].pc = "done" /\ req[r].method = "OPTIONS" /\ req[r].url = "/v1/unknown"
    /\ req[r].remoteAddress = Some("10.0.0.1")
    /\ req[r].authorization = None /\ req[r].cfg[1].token = "abc"
    /\ req[r].response.status = 204

\* C13: every response that is written, whatever its status, carries the
\* three CORS headers with their fixed values, each exactly once.
C13_CorsOnEveryResponse ==
  \A r \in DOMAIN req :
    LET s == req[r]
    IN s.writes > 0
         => /\ {<<"Access-Control-Allow-Origin", "*">>,
                 <<"Access-Control-Allow-Methods", "GET, POST, OPTIONS">>,
                 <<"Access-Control-Allow-Headers", "Content-Type, Authorization">>}
                  = s.headers
            /\ s.steps[2] = "cors"

C13_Witness ==
  \E r \in DOMAIN req :
    /\ req[r].pc = "done" /\ req[r].response.status = 500
    /\ Cardinality(req[r].headers) = 3

\* The chat handler, or the models handler, was entered by the request
InChatHandler(slot) == slot.pc = "readBody" \/ Did(slot, "readBody")

InModelsHandler(slot) == Did(slot, "listModels")

\* C14: of the requests that passed the gates, POST /v1/chat and POST
\* /v1/chat/completions go to the chat handler, GET /v1/models goes to the
\* models handler, and every other method and path is answered 404 "Not
\* Found" with "Unknown endpoint: <method> <path>", nothing read or called.
C14_RouteMatch ==
  \A r \in DOMAIN req :
    LET s == req[r]
    IN Did(s, "route")
         => IF s.method = "POST" /\ s.url \in {"/v1/chat", "/v1/chat/completions"}
            THEN InChatHandler(s) /\ ~InModelsHandler(s)
                   /\ (s.pc = "done" => s.response.status # 404)
            ELSE IF s.method = "GET" /\ s.url = "/v1/models"
            THEN InModelsHandler(s) /\ ~InChatHandler(s)
                   /\ (s.pc = "done" => s.response.status # 404)
            ELSE /\ s.pc = "done"
                 /\ s.response = ErrorResponse(404, "Not Found",
                                   "Unknown endpoint: " \o s.method \o " " \o s.url)
                 /\ Untouched(s)

C14_Witness ==
  \E r \in DOMAIN req :
    /\ req[r].pc = "done" /\ req[r].method = "GET" /\ req[r].url = "/v1/chat"
    /\ req[r].remoteAddress = Some("127.0.0.1:54321")
    /\ req[r].response.status = 404
    /\ req[r].response.body.details = Some("Unknown endpoint: GET /v1/chat")

\* Payloads with a valid, non-empty list of messages
WellFormedBodies ==
  {"{\"messages\":[{\"role\":\"user\",\"content\":\"Hello\"}]}",
   "{\"messages\":[{\"role\":\"system\",\"content\":\"Be brief\"},{\"role\":\"user\",\"content\":\"Hi\"}],\"model\":{\"family\":\"claude-3.5-sonnet\"}}"}

\* C15: a well-formed POST /v1/chat from a loopback peer with no token
\* configured, for which the model port returned a text, is answered 200 with
\* the envelope whose output_text is that text, whose model.vendor and
\* model.family are those of the port's current model, and whose id is the
\* request id generated by that execution.
C15_ChatEnvelope ==
  \A r \in DOMAIN req :
    LET s == req[r]
    IN (/\ s.pc = "done" /\ s.method = "POST" /\ s.url = "/v1/chat"
        /\ s.cfg[1].token = ""
        /\ s.body # None /\ s.body[1] \in WellFormedBodies
        /\ s.outputText # None)
         => /\ s.response.status = 200
            /\ s.response.contentType = Some("application/json")
            /\ s.response.body.kind = "envelope"
            /\ s.response.body.output_text = s.outputText[1]
            /\ s.response.body.model = [vendor |-> getCurrentModel[1].vendor,
                                         family |-> getCurrentModel[1].family]
            /\ s.response.body.model = [vendor |-> s.model[1].vendor,
                                         family |-> s.model[1].family]
            /\ s.response.body.id = s.requestId
            /\ \E uuid \in UUIDs : s.requestId = "req_" \o uuid
            /\ s.executeCalls = 1 /\ s.sendCalls = 1

C15_Witness ==
  \E r \in DOMAIN req :
    /\ req[r].pc = "done" /\ req[r].url = "/v1/chat" /\ req[r].authorization = None
    /\ req[r].remoteAddress = Some("127.0.0.1")
    /\ req[r].body = Some("{\"messages\":[{\"role\":\"user\",\"content\":\"Hello\"}]}")
    /\ req[r].response.status = 200 /\ req[r].response.body.output_text = "4"
    /\ req[r].response.body.model.family = "claude-3.5-sonnet"

\* C17: the model port's sendRequest is called at most once for a request,
\* and so is the provider's model; a model call that fails is not repeated:
\* its failure is the one error response of the request.
C17_NoRetries ==
  \A r \in DOMAIN req :
    LET s == req[r]
    IN /\ s.executeCalls <= 1 /\ s.sendCalls <= 1
       /\ Len(SelectSeq(s.steps, LAMBDA step : step = "sendRequest")) <= 1
       /\ (s.thrown \in ProviderThrows /\ InChatHandler(s))
            => /\ s.pc = "done" /\ s.sendCalls = 1 /\ s.writes = 1
               /\ s.outputText = None
               /\ s.response.status \in {400, 500}
               /\ s.response.body.details = Some(s.thrown.message)

C17_Witness ==
  \E r \in DOMAIN req :
    /\ req[r].pc = "done" /\ req[r].thrown = Thrown("Error", "Model request failed")
    /\ req[r].sendCalls = 1 /\ req[r].response.status = 500
    /\ RouteOf(req[r].method, req[r].url) = "chat"

\* C16: when the model port's sendRequest has returned a text and
\* getCurrentModel() then returns null, execute throws the plain Error "No
\* model information available" (not a ValidationError), no envelope is
\* produced and the request is answered 500.
C16_NoModelInformation ==
  \A r \in DOMAIN req :
    LET s == req[r]
    IN (s.pc = "done" /\ s.outputText # None /\ getCurrentModel = None)
         => /\ s.thrown = Thrown("Error", "No model information available")
            /\ ~InstanceOf(s.thrown.class, "ValidationError")
            /\ s.response = ErrorResponse(500, "Internal Server Error",
                                          "No model information available")
            /\ s.sendCalls = 1 /\ s.writes = 1

C16_Witness ==
  \E r \in DOMAIN req :
    /\ req[r].pc = "done" /\ req[r].outputText = Some("Hi there!")
    /\ getCurrentModel = None
    /\ req[r].response.status = 500

\* Only blanks, tabs and line ends
OnlyWhitespace(text) ==
  \A i \in 1..Len(text) : Char(text, i) \in {" ", "\t", "\n", "\r"}

\* C18: new ChatMessage(role, content) fails first on a role other than
\* system, user, assistant, with an InvalidMessageError naming the role, even
\* when the content is invalid too; else on a content that is not a string,
\* with "Message content must be a string"; else on a content that is empty
\* after trimming, with "Message content cannot be empty"; else it creates
\* the message with exactly that role and content.
C18_ChatMessageValidation ==
  \A r \in DOMAIN req :
    LET s == req[r]
        role == s.chatRequest.v.role
        content == s.chatRequest.v.content
    IN s.pc = "constructed"
         => IF role \notin {JStr("system"), JStr("user"), JStr("assistant")}
            THEN /\ s.thrown.class = "InvalidMessageError"
                 /\ StartsWithAt(s.thrown.message, "Invalid message role: ", 1)
                 /\ role.t = "str"
                      => s.thrown.message = "Invalid message role: " \o role.v
                           \o ". Must be 'system', 'user', or 'assistant'"
                 /\ s.messages = <<>>
            ELSE IF content.t # "str"
            THEN /\ s.thrown = Thrown("InvalidMessageError",
                                      "Message content must be a string")
                 /\ s.messages = <<>>
            ELSE IF OnlyWhitespace(content.v)
            THEN /\ s.thrown = Thrown("InvalidMessageError",
                                      "Message content cannot be empty")
                 /\ s.messages = <<>>
            ELSE /\ s.thrown = NoError
                 /\ s.messages = <<[role |-> role.v, content |-> content.v]>>

C18_Witness ==
  \E r \in DOMAIN req :
    /\ req[r].pc = "constructed"
    /\ req[r].chatRequest = JObj([role |-> JStr("invalid"), content |-> JNull])
    /\ req[r].thrown.message
         = "Invalid message role: invalid. Must be 'system', 'user', or 'assistant'"

-----------------------------------------------------------------------------
(* Properties of the lifecycle *)

\* The call that a step has just made, if it has made one
NewCall == calls'[Len(calls')]

\* C19: start() on an instance that is running and stop() on an instance
\* that is not running fail at once, with "Server is already running" and
\* "Server is not running"; such a call changes nothing: isRunning() and the
\* listeners are as before, none is created, bound or closed, and the
\* configuration is not read.
C19_LifecycleGuards ==
  [][(Len(calls') = Len(calls) + 1
        /\ \/ NewCall.op = "start" /\ isRunning
           \/ NewCall.op = "stop" /\ ~isRunning)
       => /\ NewCall.state = "rejected"
          /\ NewCall.error = IF NewCall.op = "start" THEN "Server is already running"
                                                     ELSE "Server is not running"
          /\ ~NewCall.readConfig /\ NewCall.listener = 0 /\ NewCall.log = <<>>
          /\ SubSeq(calls', 1, Len(calls)) = calls
          /\ UNCHANGED <<server, listeners, config, req, cachedModel, cachedModelInfo>>]_vars

C19_Witness ==
  /\ \E c \in DOMAIN calls :
       calls[c].op = "start" /\ calls[c].error = "Server is already running"
  /\ \E c \in DOMAIN calls :
       calls[c].op = "stop" /\ calls[c].error = "Server is not running"
  /\ \E i \in DOMAIN listeners : listeners[i].state = "listening"
  /\ Len(listeners) = 1 /\ isRunning

\* C20: when the bind of a listener fails, the start() that made it rejects
\* with the bind error and isRunning() is false; and a start() that is called
\* while isRunning() is false proceeds: it makes a new listener.
C20_BindFailure ==
  [][/\ \A i \in DOMAIN listeners :
          (listeners[i].state = "binding" /\ listeners'[i].state = "failed")
            => /\ server' = None
               /\ \E c \in DOMAIN calls :
                    /\ calls[c].op = "start" /\ calls[c].listener = i
                    /\ calls[c].state = "pending"
                    /\ calls'[c].state = "rejected" /\ calls'[c].error \in BindErrors
     /\ (Len(calls') = Len(calls) + 1 /\ NewCall.op = "start" /\ server = None)
          => /\ NewCall.state = "pending"
             /\ Len(listeners') = Len(listeners) + 1
             /\ server' = Some(Len(listeners'))]_vars

C20_Witness ==
  /\ Len(listeners) = 2 /\ Len(calls) = 2
  /\ listeners[1].state = "failed" /\ listeners[2].state = "listening"
  /\ calls[1].state = "rejected" /\ calls[1].error = "EADDRINUSE"
  /\ calls[2].op = "start" /\ calls[2].state = "resolved"
  /\ isRunning

\* C21: whatever bind address is configured, every listener that start()
\* makes is asked to listen on a loopback address: 127.0.0.1, localhost or
\* ::1.
C21_BindAddressLoopback ==
  \A i \in DOMAIN listeners : listeners[i].host \in {"127.0.0.1", "localhost", "::1"}

\* The response is a JSON error body with an error status
JsonError(response) ==
  /\ response.status \in {400, 401, 403, 404, 500}
  /\ response.contentType = Some("application/json")
  /\ response.body.kind = "error"

\* The response is a 200 with a JSON body
JsonSuccess(response) ==
  /\ response.status = 200
  /\ response.contentType = Some("application/json")
  /\ response.body.kind \in {"envelope", "openai", "models"}

\* C22 as stated: every request that has ended has exactly one response,
\* which is a 200 success or a JSON error body.
C22_SuccessOrJsonError ==
  \A r \in DOMAIN req :
    req[r].pc = "done"
      => /\ req[r].writes = 1
         /\ JsonSuccess(req[r].response) \/ JsonError(req[r].response)

\* C22, amended: the head and body of a response are written at most once;
\* a request that has ended has exactly one response, which is a 200
\* success, a JSON error body or, for OPTIONS only, the bodiless 204; a
\* request that has not ended has none; and every request that has arrived
\* eventually has its response.
C22_NoPartialResponses ==
  /\ [](\A r \in DOMAIN req :
          LET s == req[r]
          IN /\ s.writes <= 1
             /\ s.pc = "done" <=> s.writes = 1
             /\ s.pc # "done" => s.response = NoResponse
             /\ s.pc = "done"
                  => IF s.method = "OPTIONS"
                     THEN s.response.status = 204 /\ s.response.body.kind = "empty"
                     ELSE JsonSuccess(s.response) \/ JsonError(s.response))
  /\ \A r \in Reqs : (req[r].pc # "idle") ~> (req[r].pc = "done")

C22_Witness ==
  \E r \in DOMAIN req :
    /\ req[r].pc = "done" /\ req[r].writes = 1
    /\ req[r].thrown = Thrown("Throwable", "boom")
    /\ Did(req[r], "sendRequest")
    /\ JsonError(req[r].response)

-----------------------------------------------------------------------------
(* Model selection and the model list *)

\* C23: a chat request answered with 200 whose family (the requested one, or
\* the default when none is given) names a model family is served by a model
\* of that family, unless its own selection fell back to any Copilot model.
C23_FamilyServed ==
  \A r \in DOMAIN req :
    LET s == req[r]
    IN (s.pc = "done" /\ s.response.status = 200 /\ Did(s, "sendRequest")
          /\ TriesFamily(s.family))
         => (s.model[1].family = s.family.v \/ Did(s, "selectAny"))

C25_OpenAIModelList ==
  \A r \in DOMAIN req :
    LET s == req[r]
    IN (s.pc = "done" /\ s.listed # None /\ s.listed[1] # <<>>) =>
         /\ s.response.status = 200
         /\ LET value == s.response.body.value
                infos == s.listed[1]
            IN /\ {"object", "data"} \subseteq DOMAIN value
               /\ value.object = "list"
               /\ Len(value.data) = Len(infos)
               /\ \A i \in 1..Len(infos) :
                    /\ {"id", "object", "created", "owned_by"} \subseteq DOMAIN value.data[i]
                    /\ value.data[i].id = infos[i].id
                    /\ value.data[i].object = "model"
                    /\ value.data[i].created \in Nat
                    /\ value.data[i].owned_by = infos[i].vendor

\* The fixed fields of a model record
FixedFields == {"id", "vendor", "family", "name", "maxInputTokens", "version"}

\* C26: in every model record of an answered model list the fixed fields
\* hold the values of the ModelInfo's own fields, whatever its additional
\* properties are called, and every additional property under another name
\* is present at the top level.
C26_FixedFieldsKept ==
  \A r \in DOMAIN req :
    LET s == req[r]
    IN (s.pc = "done" /\ s.listed # None) =>
         \A i \in 1..Len(s.listed[1]) :
           LET info == s.listed[1][i]
               record == s.response.body.value.models[i]
           IN /\ \A k \in FixedFields : record[k] = info[k]
              /\ \A k \in (DOMAIN info.additionalProperties) \ FixedFields :
                   record[k] = info.additionalProperties[k]

-----------------------------------------------------------------------------
(* The shape of a chat success and the messages sent to the provider *)

\* C27: a chat request answered with 200 gets the OpenAI body exactly when
\* it came by /v1/chat/completions: then the body is the request id, object
\* 'chat.completion', created = startedAt in whole seconds, model = the
\* family, one choice (index 0, role 'assistant', the output text,
\* finish_reason 'stop') and a usage of zeros; by /v1/chat the body is the
\* envelope of execute: id, model, output_text and meta as they were made.
C27_OpenAIShapeIffCompletions ==
  \A r \in DOMAIN req :
    LET s == req[r]
        body == s.response.body
    IN (s.pc = "done" /\ s.response.status = 200 /\ InChatHandler(s)) =>
         /\ s.url \in {"/v1/chat", "/v1/chat/completions"}
         /\ body.kind = "openai" <=> s.url = "/v1/chat/completions"
         /\ IF s.url = "/v1/chat/completions"
            THEN body = [kind |-> "openai",
                         id |-> s.requestId,
                         object |-> "chat.completion",
                         created |-> s.startedAt \div 1000,
                         model |-> s.model[1].family,
                         choices |-> <<[index |-> 0,
                                        message |-> [role |-> "assistant",
                                                     content |-> s.outputText[1]],
                                        finish_reason |-> "stop"]>>,
                         usage |-> [prompt_tokens |-> 0, completion_tokens |-> 0,
                                    total_tokens |-> 0]]
            ELSE /\ body.kind = "envelope"
                 /\ DOMAIN body = {"kind", "id", "model", "output_text", "meta"}
                 /\ body.id = s.requestId
                 /\ body.model = [vendor |-> s.model[1].vendor,
                                  family |-> s.model[1].family]
                 /\ body.output_text = s.outputText[1]
                 /\ body.meta.startedAt = toISOString(s.startedAt)
                 /\ DOMAIN body.meta = {"startedAt", "endedAt"}

C27_Witness ==
  \E r \in DOMAIN req :
    /\ req[r].pc = "done" /\ req[r].url = "/v1/chat/completions"
    /\ req[r].startedAt = 1000
    /\ req[r].response.status = 200 /\ req[r].response.body.kind = "openai"
    /\ req[r].response.body.created = 1
    /\ req[r].response.body.choices[1].message.content = "Hi there!"

\* The messages of a role other than system, in their order
NonSystem(messages) == SelectSeq(messages, LAMBDA m : m.role # "system")

\* The position of the first user message, 0 if there is none
FirstUser(messages) ==
  IF \E i \in 1..Len(messages) : messages[i].role = "user"
  THEN Min({i \in 1..Len(messages) : messages[i].role = "user"})
  ELSE 0

\* C28: in every message list sent to the provider no message is a system
\* message, the user and assistant messages of the request are there in
\* their order, unchanged but for the first user message, and the first user
\* message opens with '[System Instructions]', carries the content of every
\* system message of the request and ends with its own content.
C28_SystemMessagesPrepended ==
  \A r \in DOMAIN req :
    LET s == req[r]
    IN s.prepared # None =>
         LET sent == s.prepared[1]
             systems == SelectSeq(s.messages, LAMBDA m : m.role = "system")
             others == NonSystem(s.messages)
             first == FirstUser(others)
         IN /\ \A i \in 1..Len(sent) : sent[i].role # "system"
            /\ Len(sent) = Len(others)
            /\ \A i \in 1..Len(others) :
                 /\ sent[i].role = others[i].role
                 /\ (i # first \/ systems = <<>>) => sent[i].content = others[i].content
            /\ systems # <<>> =>
                 /\ first # 0
                 /\ StartsWithAt(sent[first].content, "[System Instructions]\n", 1)
                 /\ \A j \in 1..Len(systems) :
                      Includes(sent[first].content, systems[j].content)
                 /\ LET own == others[first].content
                        whole == sent[first].content
                    IN SubSeq(whole, Len(whole) - Len(own) + 1, Len(whole)) = own

-----------------------------------------------------------------------------
(* The body reader and the model cache *)

\* C29: the chunks readBodyWithLimit holds never total more than maxBytes;
\* when it rejects, the chunks it consumed are the shortest prefix of the
\* stream whose total exceeds maxBytes, the crossing chunk is not among the
\* stored ones, the rest of the stream is left unread, and no body text is
\* produced.
C29_AbortAtThreshold ==
  \A r \in DOMAIN req :
    LET s == req[r]
        maxBytes == s.cfg[1].maxBodyBytes
        consumed == Len(s.sent) - Len(s.stream)
    IN (s.pc = "readBody" \/ Did(s, "readBody")) =>
         /\ Len(Concat(s.chunks)) <= maxBytes
         /\ s.stream = SubSeq(s.sent, consumed + 1, Len(s.sent))
         /\ s.thrown = NoError => s.chunks = SubSeq(s.sent, 1, consumed)
         /\ s.thrown # NoError =>
              /\ consumed >= 1
              /\ Len(Concat(SubSeq(s.sent, 1, consumed))) > maxBytes
              /\ Len(Concat(SubSeq(s.sent, 1, consumed - 1))) <= maxBytes
              /\ s.chunks = SubSeq(s.sent, 1, consumed - 1)
              /\ s.body = None
              /\ s.pc = "done" /\ s.response.status = 400

C29_Witness ==
  \E r \in DOMAIN req :
    /\ req[r].thrown = Thrown("Error", SizeLimitMessage(req[r].cfg[1].maxBodyBytes))
    /\ req[r].chunks # <<>>
    /\ req[r].stream # <<>>
    /\ Len(req[r].sent) = Len(req[r].chunks) + 1 + Len(req[r].stream)

\* The family of the request is absent, 'auto', or the cached model's family
CompatibleFamily(slot) ==
  LET family == EffectiveFamily(slot.family, AdapterDefaultFamily)
  IN \/ ~TriesFamily(family)
     \/ family.t = "str" /\ family.v = cachedModel[1].family

-----------------------------------------------------------------------------
(* The model cache over the life of the server *)

\* C31: whenever a stop() resolves, the adapter holds no cached model any
\* more: the model selected before the stop is forgotten, so that the first
\* chat request after the next start() selects afresh.
C31_StopClearsCache ==
  [][\A c \in DOMAIN calls :
       (calls[c].op = "stop" /\ calls[c].state = "pending" /\ calls'[c].state = "resolved")
         => (cachedModel' = None /\ cachedModelInfo' = None)]_vars

\* The selection of the request in slot r returns a model in this step
SelectionEnds(r) ==
  req[r].pc \in {"selectFamily", "selectAny"} /\ req'[r].pc = "selected"

\* C32: with two chat requests in flight and no lock, cachedModel and
\* cachedModelInfo are always both unset or describe the same model; the
\* cache is written only by a selection that returns a model, and then it
\* holds the model of that selection, so the last one to finish wins; a
\* request whose selection returned a model goes on to a 200; and every
\* request that arrived is answered.
C32_SelectionRace ==
  /\ [](/\ cachedModel = None <=> cachedModelInfo = None
        /\ cachedModel # None =>
             /\ cachedModelInfo[1].id = cachedModel[1].id
             /\ cachedModelInfo[1].vendor = cachedModel[1].vendor
             /\ cachedModelInfo[1].family = cachedModel[1].family
        /\ \A r \in DOMAIN req :
             /\ req[r].pc \in {"selected", "modelCall", "finish"} => cachedModel # None
             /\ (req[r].pc = "done" /\ req[r].selected # None)
                  => req[r].response.status = 200)
  /\ [][/\ \A r \in DOMAIN req :
            SelectionEnds(r) => (req'[r].selected # None /\ cachedModel' = req'[r].selected)
        /\ cachedModel' # cachedModel => \E r \in DOMAIN req : SelectionEnds(r)]_vars
  /\ \A r \in RaceReqs : (req[r].pc # "idle") ~> (req[r].pc = "done")

C32_Witness ==
  /\ req[1].pc = "done" /\ req[2].pc = "done"
  /\ req[1].response.status = 200 /\ req[2].response.status = 200
  /\ Did(req[1], "selectAny") /\ Did(req[2], "selectFamily")
  /\ req[1].selected = Some(Gpt4o) /\ req[2].selected = Some(Claude)
  /\ cachedModel = Some(Gpt4o)

-----------------------------------------------------------------------------
(* The configuration a request works with *)

\* C33: every configuration value a request uses is the one of the snapshot
\* it read on arrival: the token gate answers 401 exactly when that
\* snapshot's token is not presented, the body is refused exactly when it is
\* longer than that snapshot's maxBodyBytes, and a request that names no
\* family selects with that snapshot's default family.
C33_OneSnapshot ==
  \A r \in DOMAIN req :
    LET s == req[r]
    IN s.cfg # None =>
         /\ (s.pc = "done" /\ Did(s, "auth")) =>
              (s.response.status = 401 <=> ~TokenAccepted(s))
         /\ s.body # None => Len(Concat(s.sent)) <= s.cfg[1].maxBodyBytes
         /\ (s.thrown.class = "Error" /\ ~Did(s, "parse") /\ Did(s, "readBody")) =>
              /\ Len(Concat(s.sent)) > s.cfg[1].maxBodyBytes
              /\ s.thrown.message = SizeLimitMessage(s.cfg[1].maxBodyBytes)
         /\ (Did(s, "sendRequest") /\ IsFalsy(RequestedFamily(s.chatRequest))) =>
              s.family = JStr(s.cfg[1].defaultFamily)

-----------------------------------------------------------------------------
(* The lifecycle of the server *)

\* The lifecycle state of the adapter, read off this.server and its listener
LifecycleState ==
  IF server = None THEN "Stopped"
  ELSE CASE listeners[server[1]].state = "binding" -> "Starting"
         [] listeners[server[1]].state = "listening" -> "Running"
         [] listeners[server[1]].state = "closing" -> "Stopping"
         [] OTHER -> "Broken"

LifecycleMoves ==
  {<<"Stopped", "Starting">>, <<"Starting", "Running">>, <<"Starting", "Stopped">>,
   <<"Running", "Stopping">>, <<"Stopping", "Stopped">>}

\* A pending call of that kind ends that way in this step
Ends(op, state) ==
  \E c \in DOMAIN calls :
    calls[c].op = op /\ calls[c].state = "pending" /\ calls'[c].state = state

\* C34: the adapter is always Stopped, Starting, Running or Stopping and
\* changes state only along Stopped -> Starting -> Running -> Stopping ->
\* Stopped or Starting -> Stopped; isRunning() holds when a start() resolves
\* and does not when a stop() resolves; a listener is closed only after it
\* was listening; and a request is in the handler only while a listener is
\* bound.
C34_LifecycleOrder ==
  /\ [](/\ LifecycleState # "Broken"
        /\ \A r \in DOMAIN req :
             req[r].pc # "idle" =>
               \E i \in DOMAIN listeners : listeners[i].state \in {"listening", "closing"})
  /\ [][/\ LifecycleState' # LifecycleState
             => <<LifecycleState, LifecycleState'>> \in LifecycleMoves
        /\ Ends("start", "resolved") => isRunning'
        /\ Ends("stop", "resolved") => ~isRunning'
        /\ \A i \in DOMAIN listeners :
             (listeners'[i].state \in {"closing", "closed"}
                /\ listeners'[i].state # listeners[i].state)
               => listeners[i].state \in {"listening", "closing"}]_vars

-----------------------------------------------------------------------------
(* Disconnects, the use case and the provider *)

\* C35: when a client closes its connection while its request is in the
\* model port, nothing but the connection changes: the request stays where
\* it is, no cancellation is requested, the other request and the cache are
\* untouched; a model call, of a connected client or not, ends only with the
\* provider's text or the provider's error; and it does end.
C35_NoCancellation ==
  /\ [](\A r \in DOMAIN req :
          /\ ~req[r].cancellationRequested
          /\ (req[r].pc \in {"finish", "done"} /\ req[r].prepared # None)
               => (req[r].outputText # None \/ req[r].thrown \in ProviderThrows))
  /\ [][\A r \in DOMAIN req :
          (~req[r].aborted /\ req'[r].aborted) =>
            /\ req' = [req EXCEPT ![r] = [@ EXCEPT !.aborted = TRUE]]
            /\ UNCHANGED <<cachedModel, cachedModelInfo>>]_vars
  /\ \A r \in RaceReqs : (req[r].pc = "modelCall") ~> (req[r].pc = "done")

C35_Witness ==
  /\ req[1].pc = "done" /\ req[1].aborted /\ req[1].prepared # None
  /\ req[1].outputText = Some("4") /\ req[1].response.status = 200
  /\ req[2].pc = "done" /\ ~req[2].aborted /\ req[2].response.status = 200

\* C36: execute passes the request on untouched: a valid request reaches
\* the model port, the port receives one domain message per request message,
\* in the same order, with the same role and content, and as family the
\* request's model.family, undefined when there is no model or no family.
C36_PortArguments ==
  \A r \in DOMAIN req :
    LET s == req[r]
        items == GetProp(s.chatRequest, "messages").v
        model == GetProp(s.chatRequest, "model")
    IN /\ (Did(s, "execute") /\ ~Did(s, "sendRequest")) => s.pc = "sendRequest"
       /\ (s.pc = "sendRequest" \/ Did(s, "sendRequest")) =>
            /\ Len(s.messages) = Len(items)
            /\ \A i \in 1..Len(items) :
                 /\ JStr(s.messages[i].role) = GetProp(items[i], "role")
                 /\ JStr(s.messages[i].content) = GetProp(items[i], "content")
            /\ s.family = IF model \in {JUndefined, JNull} THEN JUndefined
                          ELSE IF "family" \in DOMAIN model.v THEN model.v.family
                          ELSE JUndefined

C36_Witness ==
  \E r \in DOMAIN req :
    /\ Did(req[r], "sendRequest") /\ req[r].sendCalls = 1
    /\ req[r].messages = <<[role |-> "user", content |-> "Hi"],
                           [role |-> "assistant", content |-> "Sure"],
                           [role |-> "user", content |-> "Bye"]>>
    /\ req[r].family = JStr("claude-3.5-sonnet")

\* A message as the interface accepts it: one of the three roles and a
\* string content with something other than white space in it
AcceptableMessage(item) ==
  /\ item.t = "obj"
  /\ GetProp(item, "role") \in {JStr("system"), JStr("user"), JStr("assistant")}
  /\ GetProp(item, "content").t = "str"
  /\ \E i \in 1..Len(GetProp(item, "content").v) :
       Char(GetProp(item, "content").v, i) \notin {" ", "\t", "\n", "\r"}

\* C37: the model port is called only for a request that passed every
\* earlier step: a POST from a loopback peer with an accepted token on a
\* chat route, whose body is within the limit and is a JSON object with a
\* non-empty messages array of valid messages only. A request whose last
\* message alone is invalid never reaches the port or the provider.
C37_PortBehindEveryStep ==
  \A r \in DOMAIN req :
    LET s == req[r]
        body == Concat(s.sent)
        messages == GetProp(s.chatRequest, "messages")
    IN /\ (s.sendCalls > 0 \/ s.pc = "sendRequest") =>
            /\ s.method = "POST"
            /\ s.remoteAddress \notin NonLoopbackPeers
            /\ TokenAccepted(s)
            /\ s.url \in {"/v1/chat", "/v1/chat/completions"}
            /\ Len(body) <= s.cfg[1].maxBodyBytes
            /\ body \notin MalformedBodies /\ s.body = Some(body)
            /\ messages.t = "arr" /\ Len(messages.v) > 0
            /\ \A i \in 1..Len(messages.v) : AcceptableMessage(messages.v[i])
       /\ s.providerCalls > 0 => (s.sendCalls > 0 \/ Did(s, "listModels"))

C37_Witness ==
  \E r \in DOMAIN req :
    /\ req[r].pc = "done" /\ req[r].sendCalls = 1 /\ req[r].response.status = 200
    /\ req[r].url = "/v1/chat/completions"
    /\ req[r].remoteAddress = Some("127.0.0.1:54321")
    /\ req[r].cfg[1].token = "abc" /\ req[r].authorization = Some("Bearer abc")
    /\ Len(GetProp(req[r].chatRequest, "messages").v) = 2

-----------------------------------------------------------------------------
(* The model a response names *)

\* C38: whatever the interleaving of two chat requests, the vendor and
\* family in a 200 response are those of the model whose sendRequest
\* produced the response's output_text.
C38_ReportedModelAnswered ==
  \A r \in DOMAIN req :
    LET s == req[r]
    IN (s.pc = "done" /\ s.response.status = 200 /\ Did(s, "execute")) =>
         /\ s.model # None
         /\ s.response.body.kind \in {"envelope", "openai"}
         /\ s.response.body.kind = "envelope" =>
              /\ s.response.body.output_text = s.outputText[1]
              /\ s.response.body.model = [vendor |-> s.model[1].vendor,
                                          family |-> s.model[1].family]
         /\ s.response.body.kind = "openai" =>
              /\ s.response.body.choices[1].message.content = s.outputText[1]
              /\ s.response.body.model = s.model[1].family

-----------------------------------------------------------------------------
(* isRunning and the listeners of the adapter *)

\* The listeners the adapter created that have not ended
LiveListeners ==
  {i \in DOMAIN listeners : listeners[i].state \in {"binding", "listening", "closing"}}

\* C39: after any interleaving of start() calls, stop() calls and listener
\* errors, isRunning() is false only when no listener of the adapter is
\* bound, true only when a listener of the adapter exists, and the adapter
\* never has more than one listener.
C39_RunningIffListener ==
  /\ ~isRunning => \A i \in DOMAIN listeners : listeners[i].state # "listening"
  /\ isRunning => LiveListeners # {}
  /\ Cardinality(LiveListeners) <= 1

-----------------------------------------------------------------------------
(* A selection that finds no model *)

\* The request ends because its selection found no model
SelectionFails(r) ==
  /\ req[r].pc = "selectAny" /\ req'[r].pc = "done"
  /\ req'[r].thrown.class = "ModelUnavailableError"

\* C40: a selection that finds no model changes neither cachedModel nor
\* cachedModelInfo and leaves both unset, so getCurrentModel() is null; the
\* request is answered with the error of ModelUnavailableError; the two cache
\* fields are never set one without the other; and a request that reaches
\* the port while the cache is unset asks the provider for a model again.
C40_FailedSelectionLeavesNoModel ==
  /\ [](cachedModel = None <=> cachedModelInfo = None)
  /\ [][\A r \in DOMAIN req :
          /\ SelectionFails(r) =>
               /\ cachedModel' = cachedModel /\ cachedModelInfo' = cachedModelInfo
               /\ cachedModel' = None /\ getCurrentModel' = None
               /\ req'[r].response =
                    ErrorResponse(500, "Internal Server Error",
                      "No Copilot models available. Ensure GitHub Copilot is installed and authenticated.")
               /\ req'[r].outputText = None
          /\ (req[r].pc = "selectAny" /\ req'[r].pc = "done") => SelectionFails(r)
          /\ (req[r].pc = "sendRequest" /\ req'[r].pc # "sendRequest"
                /\ cachedModel = None)
               => /\ req'[r].pc \in {"selectFamily", "selectAny"}
                  /\ req'[r].providerCalls = req[r].providerCalls + 1]_vars

C40_Witness ==
  \E r \in DOMAIN req :
    /\ req[r].pc = "done" /\ req[r].thrown.class = "ModelUnavailableError"
    /\ Did(req[r], "selectFamily") /\ Did(req[r], "selectAny")
    /\ req[r].response.status = 500
    /\ cachedModel = None /\ getCurrentModel = None
====
